---- MODULE Spec2Model ----
(***************************************************************************)
(* Freshdesk-to-JIRA migrator: the field-mapping and overflow-allocation   *)
(* engine (FieldMapper, TicketConverter) and its orchestration             *)
(* (TicketMigrator).                                                       *)
(*                                                                         *)
(* Text is a sequence of one-character strings; the element "emdash"       *)
(* stands for the single character U+2014.  Positions returned by the      *)
(* search operators are 0-based, as in Python.                             *)
(***************************************************************************)
EXTENDS Integers, Sequences, FiniteSets, TLC

VARIABLES
    data,                   \* the text blob handed to a splitter or to the allocator
    max_length,             \* the max_length in force for that call
    num_overflow_fields,    \* splitter harness: the num_overflow_fields argument
    chunks,                 \* splitter harness: the list the splitter returned
    splitter,               \* splitter harness: which splitter produced chunks
    mapping_file,           \* what open() and json.load() found at mapping_file_path
                            \* when the FieldMapper was built
    field_mapping,          \* FieldMapper.field_mapping: the mapping table
    overflow_tracker,       \* FieldMapper._overflow_tracker: the pool cursor
    additional_info_fields, \* FieldMapper._additional_info_fields: the pool
    mapped_fields,          \* the dict the last FieldMapper call, or the last
                            \* get_mapped_fields_summary, returned
    op,                     \* the last call made: its name and its data_type
    in_ticket,              \* ticket harness: the ticket record given
    in_user_data,           \* ticket harness: the identity directory given
    jira_issue,             \* the assignments the last convert_to_jira_issue made to
                            \* jira_issue["fields"], in order, each with its writer
    raised,                 \* the last convert_to_jira_issue raised
    pending,                \* migration run: the ticket ids still to be taken
    ticket_status,          \* MigrationTracker: jira_status of every ticket id
    stats,                  \* TicketMigrator.stats
    history,                \* one entry per convert_to_jira_issue call of the run:
                            \* the cursor it started from and the data it was given
    workers,                \* parallel run: what every worker thread is doing
    cursor_reads,           \* parallel run: the cursor values that calls of
                            \* _get_next_additional_info_field read and handed out
    mapper_call,            \* transform harness: the arguments at hand and the name
                            \* of the function last called with them
    mapper_results,         \* transform harness: what the calls returned, in order
    jira_issues,            \* the keys of the issues that exist in JIRA
    created_issues,         \* the keys of the issues jira.create_issue handed out
    tracker_file,           \* MigrationTracker.tracker_file: the rows on disk
    tracker_lock,           \* MigrationTracker._lock: the thread holding it, or 0
    pending_issues,         \* TicketMigrator.pending_issues: (ticket_id, issue_key)
    threads                 \* what every thread of the live migration is doing

splitVars == <<data, max_length, num_overflow_fields, chunks, splitter>>

mapperVars == <<mapping_file, field_mapping, overflow_tracker, additional_info_fields>>

callVars == <<mapped_fields, op>>

ticketVars == <<in_ticket, in_user_data, jira_issue, raised>>

runVars == <<pending, ticket_status, stats, history>>

parVars == <<workers, cursor_reads>>

transformVars == <<mapper_call, mapper_results>>

atomicVars == <<jira_issues, created_issues, tracker_file, tracker_lock, pending_issues, threads>>

vars == <<data, max_length, num_overflow_fields, chunks, splitter, mapping_file, field_mapping,
          overflow_tracker, additional_info_fields, mapped_fields, op, in_ticket,
          in_user_data, jira_issue, raised, pending, ticket_status, stats, history,
          workers, cursor_reads, mapper_call, mapper_results, jira_issues, created_issues,
          tracker_file, tracker_lock, pending_issues, threads>>

-----------------------------------------------------------------------------
(* Bounds of the model *)

\* longest blob of the splitter harness, in pieces
MaxPieces == 4

\* longest blob of the allocator harness, in pieces
MaxAllocPieces == 4

\* tickets of one migration run
MaxTickets == 2

\* worker threads of the parallel run
MaxWorkers == 2

-----------------------------------------------------------------------------
(* Python text primitives *)

Min(a, b) == IF a < b THEN a ELSE b

Max(a, b) == IF a > b THEN a ELSE b

\* n copies of the character c
Rep(c, n) == [k \in 1..n |-> c]

\* the decimal digits of a natural number: str(n)
RECURSIVE StrInt(_)
StrInt(n) ==
    LET d == <<"0", "1", "2", "3", "4", "5", "6", "7", "8", "9">>
    IN IF n < 10 THEN <<d[n + 1]>> ELSE StrInt(n \div 10) \o <<d[(n % 10) + 1]>>

\* s[:k], negative k counted from the end
Prefix(s, k) ==
    LET n == Len(s)
        e == IF k < 0 THEN Max(0, n + k) ELSE Min(k, n)
    IN SubSeq(s, 1, e)

\* s[k:], negative k counted from the end
Suffix(s, k) ==
    LET n == Len(s)
        b == IF k < 0 THEN Max(0, n + k) ELSE Min(k, n)
    IN SubSeq(s, b + 1, n)

\* sep occurs in s at 0-based position p
OccursAt(s, sep, p) == \A k \in 1..Len(sep) : s[p + k] = sep[k]

\* s.rfind(sep, 0, end): the highest position of sep inside s[0:end], or -1
RFind(s, sep, end) ==
    LET n == Len(s)
        e == IF end < 0 THEN Max(0, n + end) ELSE Min(end, n)
        found == {p \in 0..(e - Len(sep)) : OccursAt(s, sep, p)}
    IN IF found = {} THEN -1 ELSE CHOOSE p \in found : \A q \in found : q <= p

\* x > max_length * 0.8 on integers
Above80(x, m) == 10 * x > 8 * m

-----------------------------------------------------------------------------
(* Literal texts of the source *)

\* the string literals of src/core/field_mapper.py
FM_text ==
    [NL |-> <<"\n">>,
     NLNL |-> <<"\n", "\n">>,
     Dashes |-> <<"-", "-", "-">>,
     DashesBlock |-> <<"\n", "\n", "-", "-", "-", "\n", "\n">>,
     HdrSuffix |-> <<")", " ", "emdash", "*", "*", "\n">>,
     ConvDetailsHdrPrefix |-> <<"*", "*", "emdash", " ", "C", "o", "n", "v", "e",
         "r", "s", "a", "t", "i", "o", "n", " ", "D", "e", "t", "a", "i", "l", "s",
         " ", "(", "C", "o", "n", "t", "i", "n", "u", "e", "d", " ">>,
     AttDetailsHdrPrefix |-> <<"*", "*", "emdash", " ", "A", "t", "t", "a", "c", "h",
         "m", "e", "n", "t", " ", "D", "e", "t", "a", "i", "l", "s", " ", "(", "C",
         "o", "n", "t", "i", "n", "u", "e", "d", " ">>,
     DescHdrPrefix |-> <<"*", "*", "emdash", " ", "D", "e", "s", "c", "r", "i", "p",
         "t", "i", "o", "n", " ", "(", "C", "o", "n", "t", "i", "n", "u", "e", "d",
         " ">>,
     TicketFieldsHdrPrefix |-> <<"*", "*", "emdash", " ", "T", "i", "c", "k", "e",
         "t", " ", "F", "i", "e", "l", "d", "s", " ", "(", "C", "o", "n", "t", "i",
         "n", "u", "e", "d", " ">>,
     UserFieldsHdrPrefix |-> <<"*", "*", "emdash", " ", "U", "s", "e", "r", " ", "F",
         "i", "e", "l", "d", "s", " ", "(", "C", "o", "n", "t", "i", "n", "u", "e",
         "d", " ">>,
     ConvTitle |-> <<"*", "*", "emdash", " ", "C", "o", "n", "v", "e", "r", "s", "a",
         "t", "i", "o", "n", "s", " ", "emdash", "*", "*">>,
     ConvHeaders |-> <<"c", "r", "e", "a", "t", "e", "d", "_", "a", "t", "|", "u",
         "p", "d", "a", "t", "e", "d", "_", "a", "t", "|", "c", "o", "n", "v", "e",
         "r", "s", "a", "t", "i", "o", "n", "_", "i", "d", "|", "u", "s", "e", "r",
         "_", "i", "d", "|", "p", "r", "i", "v", "a", "t", "e", "|", "t", "o", "_",
         "e", "m", "a", "i", "l", "|", "f", "r", "o", "m", "_", "e", "m", "a", "i",
         "l", "|", "c", "c", "_", "e", "m", "a", "i", "l", "|", "b", "c", "c", "_",
         "e", "m", "a", "i", "l">>,
     AttTitle |-> <<"*", "*", "emdash", " ", "A", "t", "t", "a", "c", "h", "m", "e",
         "n", "t", " ", "D", "e", "t", "a", "i", "l", "s", " ", "emdash", "*", "*">>,
     FM_AttHeaders |-> <<"c", "r", "e", "a", "t", "e", "d", "_", "a", "t", "|", "u",
         "p", "d", "a", "t", "e", "d", "_", "a", "t", "|", "a", "t", "t", "a", "c",
         "h", "m", "e", "n", "t", "_", "i", "d", "|", "f", "i", "l", "e", " ", "n",
         "a", "m", "e", "|", "s", "i", "z", "e", "|", "u", "s", "e", "r", "_", "i",
         "d", "|", "c", "o", "n", "v", "e", "r", "s", "a", "t", "i", "o", "n", "_",
         "i", "d">>,
     SummaryPrefix |-> <<"F", "r", "e", "s", "h", "d", "e", "s", "k", " ", "T", "i",
         "c", "k", "e", "t", " ", "#">>,
     SummarySuffix |-> <<":", " ", "N", "o", " ", "S", "u", "b", "j", "e", "c", "t",
         " ", "P", "r", "o", "v", "i", "d", "e", "d">>,
     TxtUnknown |-> <<"U", "n", "k", "n", "o", "w", "n">>,
     TxtPublic |-> <<"p", "u", "b", "l", "i", "c">>,
     TxtPrivate |-> <<"p", "r", "i", "v", "a", "t", "e">>,
     TxtNA |-> <<"N", "A">>,
     TxtNSlashA |-> <<"N", "/", "A">>,
     Pipe |-> <<"|">>,
     TxtEllipsis |-> <<".", ".", ".">>]

\* the string literals that only src/core/ticket_converter.py has
TC_text ==
    [ConversationsHdrPrefix |-> <<"*", "*", "emdash", " ", "C", "o", "n", "v", "e",
         "r", "s", "a", "t", "i", "o", "n", "s", " ", "(", "C", "o", "n", "t", "i",
         "n", "u", "e", "d", " ">>,
     AttachmentsHdrPrefix |-> <<"*", "*", "emdash", " ", "A", "t", "t", "a", "c",
         "h", "m", "e", "n", "t", "s", " ", "(", "C", "o", "n", "t", "i", "n", "u",
         "e", "d", " ">>,
     TC_AttHeaders |-> <<"c", "r", "e", "a", "t", "e", "d", "_", "a", "t", "|", "u",
         "p", "d", "a", "t", "e", "d", "_", "a", "t", "|", "a", "t", "t", "a", "c",
         "h", "m", "e", "n", "t", "_", "i", "d", "|", "n", "e", "w", "N", "a", "m",
         "e", "d", " ", "f", "i", "l", "e", " ", "n", "a", "m", "e", "|", "s", "i",
         "z", "e", "|", "u", "s", "e", "r", "_", "i", "d", "|", "c", "o", "n", "v",
         "e", "r", "s", "a", "t", "i", "o", "n", "_", "i", "d">>,
     DescTitle |-> <<"*", "*", "emdash", " ", "D", "e", "s", "c", "r", "i", "p", "t",
         "i", "o", "n", " ", "emdash", "*", "*", "\n">>,
     MetaTitle |-> <<"*", "*", "emdash", " ", "F", "r", "e", "s", "h", "d", "e", "s",
         "k", " ", "T", "i", "c", "k", "e", "t", " ", "M", "e", "t", "a", "d", "a",
         "t", "a", " ", "emdash", "*", "*">>]

\* the string literals of config/mapper_functions.py
MF_text ==
    [TxtLow |-> <<"L", "o", "w">>,
     TxtMedium |-> <<"M", "e", "d", "i", "u", "m">>,
     TxtHigh |-> <<"H", "i", "g", "h">>,
     TxtUrgent |-> <<"U", "r", "g", "e", "n", "t">>,
     TxtLowerTrue |-> <<"t", "r", "u", "e">>,
     TxtLowerFalse |-> <<"f", "a", "l", "s", "e">>]

-----------------------------------------------------------------------------
(* FieldMapper: break points *)

\* FieldMapper._find_conversation_break_point
FM_find_conversation_break_point(s, m) ==
    IF Len(s) <= m THEN Len(s)
    ELSE LET p1 == RFind(s, FM_text.Dashes, m)
             p2 == RFind(s, FM_text.DashesBlock, m)
             nl == RFind(s, FM_text.NL, m)
         IN IF p1 > 0 THEN p1 + Len(FM_text.Dashes)
            ELSE IF p2 > 0 THEN p2 + Len(FM_text.DashesBlock)
            ELSE IF Above80(nl, m) THEN nl + 1
            ELSE m

\* FieldMapper._find_attachment_break_point
FM_find_attachment_break_point(s, m) ==
    IF Len(s) <= m THEN Len(s)
    ELSE LET p == RFind(s, FM_text.NLNL, m)
             nl == RFind(s, FM_text.NL, m)
         IN IF p > 0 THEN p + 2
            ELSE IF Above80(nl, m) THEN nl + 1
            ELSE m

\* FieldMapper._find_generic_break_point
FM_find_generic_break_point(s, m) ==
    IF Len(s) <= m THEN Len(s)
    ELSE LET p1 == RFind(s, FM_text.NLNL, m)
             p2 == RFind(s, FM_text.NL, m)
             p3 == RFind(s, <<" ">>, m)
         IN IF p1 > 0 THEN p1 + 2
            ELSE IF p2 > 0 THEN p2 + 1
            ELSE IF p3 > 0 THEN p3 + 1
            ELSE m

\* the section breaks FieldMapper._find_description_break_point looks for, in order
FM_section_breaks ==
    << <<"\n", "\n", "*", "*", "emdash">>,
       <<"\n", "*", "*", "emdash">>,
       <<"\n", "\n", "#", "#">>,
       <<"\n", "#", "#">>,
       <<"\n", "\n", "#", "#", "#">>,
       <<"\n", "#", "#", "#">> >>

RECURSIVE FM_first_section_break(_, _, _)
FM_first_section_break(s, m, k) ==
    IF k > Len(FM_section_breaks) THEN -1
    ELSE LET p == RFind(s, FM_section_breaks[k], m)
         IN IF p > 0 THEN p ELSE FM_first_section_break(s, m, k + 1)

\* FieldMapper._find_description_break_point
FM_find_description_break_point(s, m) ==
    IF Len(s) <= m THEN Len(s)
    ELSE LET sb == FM_first_section_break(s, m, 1)
             p1 == RFind(s, FM_text.NLNL, m)
             p2 == RFind(s, FM_text.NL, m)
         IN IF sb > 0 THEN sb
            ELSE IF p1 > 0 THEN p1 + 2
            ELSE IF p2 > 0 THEN p2 + 1
            ELSE m

-----------------------------------------------------------------------------
(* FieldMapper: splitters *)

\* the continuation header of overflow chunk i
FM_continuation_header(kind, i) ==
    (CASE kind = "conversation"  -> FM_text.ConvDetailsHdrPrefix
       [] kind = "attachment"    -> FM_text.AttDetailsHdrPrefix
       [] kind = "description"   -> FM_text.DescHdrPrefix
       [] kind = "ticket_fields" -> FM_text.TicketFieldsHdrPrefix
       [] kind = "user_fields"   -> FM_text.UserFieldsHdrPrefix)
    \o StrInt(i) \o FM_text.HdrSuffix

FM_find_break_point(kind, s, m) ==
    CASE kind = "conversation" -> FM_find_conversation_break_point(s, m)
      [] kind = "attachment"   -> FM_find_attachment_break_point(s, m)
      [] kind = "description"  -> FM_find_description_break_point(s, m)
      [] OTHER                 -> FM_find_generic_break_point(s, m)

RECURSIVE FM_split_loop(_, _, _, _, _, _)
RECURSIVE FM_split_chunk(_, _, _, _, _, _, _)
RECURSIVE FM_split_at(_, _, _, _, _, _, _, _)

\* "chunk = remaining_data[:break_point]; remaining_data = remaining_data[break_point:]"
\* under the header h of the chunk, and on to the next pass of the loop
FM_split_at(kind, remaining, m, i, total_fields, acc, h, break_point) ==
    FM_split_loop(kind, Suffix(remaining, break_point), m, i + 1, total_fields,
                  Append(acc, h \o Prefix(remaining, break_point)))

\* one pass of the loop; h is the continuation header, empty for the first field
FM_split_chunk(kind, remaining, m, i, total_fields, acc, h) ==
    IF Len(remaining) <= m - Len(h)
    THEN Append(acc, h \o remaining)
    ELSE FM_split_at(kind, remaining, m, i, total_fields, acc, h,
                     FM_find_break_point(kind, remaining, m - Len(h)))

\* the loop "for i in range(total_fields)" shared by the four splitters
FM_split_loop(kind, remaining, m, i, total_fields, acc) ==
    IF i >= total_fields \/ remaining = <<>> THEN acc
    ELSE FM_split_chunk(kind, remaining, m, i, total_fields, acc,
                        IF i = 0 THEN <<>> ELSE FM_continuation_header(kind, i))

FM_split(kind, s, m, n) ==
    IF Len(s) <= m THEN <<s>>
    ELSE FM_split_loop(kind, s, m, 0, 1 + n, <<>>)

\* a splitter that is not capped at the dedicated fields: it may return as many chunks
\* as the dedicated fields and a pool of three fields hold
FM_split_conversation_data_uncapped(s, m, n) == FM_split("conversation", s, m, n + 3)

\* FieldMapper._split_conversation_data
FM_split_conversation_data(s, m, n) == FM_split("conversation", s, m, n)

\* FieldMapper._split_attachment_data
FM_split_attachment_data(s, m, n) == FM_split("attachment", s, m, n)

\* FieldMapper._split_generic_data
FM_split_generic_data(s, m, n, data_type) == FM_split(data_type, s, m, n)

\* FieldMapper._split_description_data
FM_split_description_data(s, m, n) == FM_split("description", s, m, n)

-----------------------------------------------------------------------------
(* TicketConverter: break points and splitters *)

\* TicketConverter._find_conversation_break_point
TC_find_conversation_break_point(s, m) ==
    IF Len(s) <= m THEN Len(s)
    ELSE LET p1 == RFind(s, FM_text.Dashes, m)
             p2 == RFind(s, FM_text.NLNL, m)
             nl == RFind(s, FM_text.NL, m)
         IN IF p1 > 0 THEN p1 + 3
            ELSE IF p2 > 0 THEN p2 + 2
            ELSE IF Above80(nl, m) THEN nl + 1
            ELSE m

\* TicketConverter._find_attachment_break_point
TC_find_attachment_break_point(s, m) ==
    IF Len(s) <= m THEN Len(s)
    ELSE LET nl == RFind(s, FM_text.NL, m)
         IN IF Above80(nl, m) THEN nl + 1 ELSE m

\* TicketConverter._find_description_break_point
TC_find_description_break_point(s, m) ==
    IF Len(s) <= m THEN Len(s)
    ELSE LET p1 == RFind(s, FM_text.NLNL, m)
             b  == RFind(s, <<"*", "*">>, m)
             nl == RFind(s, FM_text.NL, m)
         IN IF p1 > 0 THEN p1 + 2
            ELSE IF Above80(b, m) THEN b
            ELSE IF Above80(nl, m) THEN nl + 1
            ELSE m

\* the continuation header of chunk chunk_number (the first chunk is number 1)
TC_continuation_header(kind, chunk_number) ==
    (IF kind = "conversation" THEN TC_text.ConversationsHdrPrefix ELSE TC_text.AttachmentsHdrPrefix)
    \o StrInt(chunk_number) \o FM_text.HdrSuffix

TC_find_break_point(kind, s, m) ==
    IF kind = "conversation"
    THEN TC_find_conversation_break_point(s, m)
    ELSE TC_find_attachment_break_point(s, m)

RECURSIVE TC_split_loop(_, _, _, _, _)
RECURSIVE TC_split_chunk(_, _, _, _, _, _)
RECURSIVE TC_split_at(_, _, _, _, _, _, _)

\* "chunk = remaining_data[:break_point]; remaining_data = remaining_data[break_point:]"
\* under the header h of the chunk, and on to the next pass of the loop
TC_split_at(kind, remaining, m, chunk_number, acc, h, break_point) ==
    TC_split_loop(kind, Suffix(remaining, break_point), m, chunk_number + 1,
                  Append(acc, h \o Prefix(remaining, break_point)))

\* one pass of the loop; h is the continuation header, empty for the first chunk
TC_split_chunk(kind, remaining, m, chunk_number, acc, h) ==
    IF Len(remaining) <= m /\ Len(remaining) <= m - Len(h)
    THEN Append(acc, h \o remaining)
    ELSE TC_split_at(kind, remaining, m, chunk_number, acc, h,
                     TC_find_break_point(kind, remaining, m - Len(h)))

\* the loop "while remaining_data" of the two category splitters
TC_split_loop(kind, remaining, m, chunk_number, acc) ==
    IF remaining = <<>> THEN acc
    ELSE TC_split_chunk(kind, remaining, m, chunk_number, acc,
                        IF chunk_number = 1 THEN <<>>
                        ELSE TC_continuation_header(kind, chunk_number))

\* TicketConverter._split_conversation_data
TC_split_conversation_data(s, m) ==
    IF Len(s) <= m THEN <<s>> ELSE TC_split_loop("conversation", s, m, 1, <<>>)

\* TicketConverter._split_attachment_data
TC_split_attachment_data(s, m) ==
    IF Len(s) <= m THEN <<s>> ELSE TC_split_loop("attachment", s, m, 1, <<>>)

RECURSIVE TC_split_description_loop(_, _, _, _, _)
RECURSIVE TC_split_description_chunk(_, _, _, _, _, _)
RECURSIVE TC_split_description_at(_, _, _, _, _, _, _)

TC_split_description_at(remaining, m, i, total_fields, acc, h, break_point) ==
    TC_split_description_loop(Suffix(remaining, break_point), m, i + 1, total_fields,
                              Append(acc, h \o Prefix(remaining, break_point)))

\* one pass of the loop; h is the continuation header, empty for the description field
TC_split_description_chunk(remaining, m, i, total_fields, acc, h) ==
    IF Len(remaining) <= m - Len(h)
    THEN Append(acc, h \o remaining)
    ELSE TC_split_description_at(remaining, m, i, total_fields, acc, h,
                                 TC_find_description_break_point(remaining, m - Len(h)))

\* the loop "for i in range(total_fields)" of TicketConverter._split_description_data
TC_split_description_loop(remaining, m, i, total_fields, acc) ==
    IF i >= total_fields \/ remaining = <<>> THEN acc
    ELSE TC_split_description_chunk(remaining, m, i, total_fields, acc,
                                    IF i = 0 THEN <<>>
                                    ELSE FM_text.DescHdrPrefix \o StrInt(i) \o FM_text.HdrSuffix)

\* TicketConverter._split_description_data
TC_split_description_data(s, m, n) ==
    IF Len(s) <= m THEN <<s>>
    ELSE TC_split_description_loop(s, m, 0, 1 + n, <<>>)

-----------------------------------------------------------------------------
(* Python dicts: a dict is the ordered list of the assignments made to it;      *)
(* reading it takes the last assignment of a key, iterating it visits the keys  *)
(* in the order of their first assignment.                                      *)

Assign(k, v) == [f |-> k, v |-> v]

HasKey(d, k) == \E j \in 1..Len(d) : d[j].f = k

\* d[k], for a key the dict holds
Lookup(d, k) ==
    LET last == CHOOSE j \in 1..Len(d) :
                    d[j].f = k /\ \A i \in (j + 1)..Len(d) : d[i].f # k
    IN d[last].v

\* d.items()
RECURSIVE ItemsFrom(_, _)
ItemsFrom(d, j) ==
    IF j > Len(d) THEN <<>>
    ELSE IF \E i \in 1..(j - 1) : d[i].f = d[j].f
    THEN ItemsFrom(d, j + 1)
    ELSE <<Assign(d[j].f, Lookup(d, d[j].f))>> \o ItemsFrom(d, j + 1)

Items(d) == ItemsFrom(d, 1)

-----------------------------------------------------------------------------
(* Python values *)

\* a value of a source record: None, a bool, a non-negative int, a str, or the dict
\* {"name": s} that map_user_to_system_field builds
VNone == [t |-> "none", i |-> 0, s |-> <<>>]

VBool(b) == [t |-> "bool", i |-> IF b THEN 1 ELSE 0, s |-> <<>>]

VInt(n) == [t |-> "int", i |-> n, s |-> <<>>]

VStr(x) == [t |-> "str", i |-> 0, s |-> x]

VDict(x) == [t |-> "dict", i |-> 0, s |-> x]

\* bool(v)
Truthy(v) ==
    CASE v.t = "none" -> FALSE
      [] v.t \in {"bool", "int"} -> v.i # 0
      [] v.t = "str" -> v.s # <<>>
      [] OTHER -> TRUE

TxtNone == <<"N", "o", "n", "e">>

TxtTrue == <<"T", "r", "u", "e">>

TxtFalse == <<"F", "a", "l", "s", "e">>

\* str(v)
Str(v) ==
    CASE v.t = "none" -> TxtNone
      [] v.t = "bool" -> (IF v.i = 1 THEN TxtTrue ELSE TxtFalse)
      [] v.t = "int" -> StrInt(v.i)
      [] v.t = "str" -> v.s
      [] OTHER -> <<"{", "'", "n", "a", "m", "e", "'", ":", " ", "'">> \o v.s \o <<"'", "}">>

Whitespace == {" ", "\n", "\t"}

\* s.lstrip()
RECURSIVE LStrip(_)
LStrip(s) ==
    IF s # <<>> /\ Head(s) \in Whitespace THEN LStrip(Tail(s)) ELSE s

\* s.rstrip()
RECURSIVE RStrip(_)
RStrip(s) ==
    IF s # <<>> /\ s[Len(s)] \in Whitespace THEN RStrip(SubSeq(s, 1, Len(s) - 1)) ELSE s

\* s.strip()
Strip(s) == RStrip(LStrip(s))

UpperCase == <<"A", "B", "C", "D", "E", "F", "G", "H", "I", "J", "K", "L", "M", "N", "O", "P", "Q", "R", "S", "T", "U", "V", "W", "X", "Y", "Z">>

LowerCase == <<"a", "b", "c", "d", "e", "f", "g", "h", "i", "j", "k", "l", "m", "n", "o", "p", "q", "r", "s", "t", "u", "v", "w", "x", "y", "z">>

LowerChar(c) ==
    IF \E k \in 1..26 : UpperCase[k] = c
    THEN LowerCase[CHOOSE k \in 1..26 : UpperCase[k] = c]
    ELSE c

\* s.lower()
Lower(s) == [k \in 1..Len(s) |-> LowerChar(s[k])]

Digits == <<"0", "1", "2", "3", "4", "5", "6", "7", "8", "9">>

IsDigits(s) == s # <<>> /\ \A k \in 1..Len(s) : \E d \in 1..10 : Digits[d] = s[k]

DigitVal(c) == (CHOOSE d \in 1..10 : Digits[d] = c) - 1

\* int(s) for a string of decimal digits
RECURSIVE ParseNat(_)
ParseNat(s) ==
    IF s = <<>> THEN 0
    ELSE 10 * ParseNat(SubSeq(s, 1, Len(s) - 1)) + DigitVal(s[Len(s)])

\* no identity directory (user_data is None or an empty dict)
NoUserData == [present |-> FALSE, agents |-> {}, contacts |-> {}]

\* agents[str(id)], contacts[str(id)]
EntryOf(entries, id) == CHOOSE e \in entries : e.id = id

HasEntry(entries, id) == \E e \in entries : e.id = id

\* str(id) is a key of the directory section: the keys are the decimal ids
KeyIn(key, entries) ==
    IsDigits(key) /\ StrInt(ParseNat(key)) = key /\ HasEntry(entries, ParseNat(key))

-----------------------------------------------------------------------------
(* FieldMapper: the overflow allocator *)

\* the value of max_length when the parent mapping does not give one (32000 in the
\* source; the texts of the model are scaled down with it)
FieldLimit == 200

\* a parent mapping without max_length
NoMaxLength == -1

\* parent_mapping.get("max_length", 32000)
ParentMaxLength(parent_mapping) ==
    IF parent_mapping.max_length = NoMaxLength THEN FieldLimit ELSE parent_mapping.max_length

\* FieldMapper._get_next_additional_info_field: the field handed out ("" for None)
\* and the cursor afterwards
FM_get_next_additional_info_field(tracker, pool) ==
    IF tracker >= Len(pool)
    THEN [field |-> "", tracker |-> tracker]
    ELSE [field |-> pool[tracker + 1], tracker |-> tracker + 1]

\* "for i, overflow_field in enumerate(fields): if i + 1 < len(chunks): ..."
RECURSIVE AssignDedicated(_, _, _)
AssignDedicated(fields, cs, i) ==
    IF i >= Len(fields) THEN <<>>
    ELSE (IF i + 1 < Len(cs) THEN <<Assign(fields[i + 1], cs[i + 2])>> ELSE <<>>)
         \o AssignDedicated(fields, cs, i + 1)

\* "mapped_fields[jira_field] = chunks[0] if chunks else ''" and the loop over the
\* overflow fields after it
AssignChunks(jira_field, fields, cs) ==
    <<Assign(jira_field, IF cs # <<>> THEN cs[1] ELSE <<>>)>>
    \o AssignDedicated(fields, cs, 0)

\* "for chunk in remaining_chunks: next_field = ...; if next_field: ... else: break"
RECURSIVE AssignFromPool(_, _, _, _)
AssignFromPool(remaining_chunks, tracker, pool, acc) ==
    IF remaining_chunks = <<>> THEN [assigns |-> acc, tracker |-> tracker]
    ELSE LET nxt == FM_get_next_additional_info_field(tracker, pool)
         IN IF nxt.field # ""
            THEN AssignFromPool(Tail(remaining_chunks), nxt.tracker, pool,
                                Append(acc, Assign(nxt.field, Head(remaining_chunks))))
            ELSE [assigns |-> acc, tracker |-> nxt.tracker]

\* the body shared by _handle_conversation_overflow and _handle_attachment_overflow
FM_handle_category_overflow(cs, overflow_fields, jira_field, tracker, pool) ==
    IF Len(cs) > 1 + Len(overflow_fields)
    THEN AssignFromPool(Suffix(cs, 1 + Len(overflow_fields)), tracker, pool,
                        AssignChunks(jira_field, overflow_fields, cs))
    ELSE [assigns |-> AssignChunks(jira_field, overflow_fields, cs), tracker |-> tracker]

\* FieldMapper._handle_conversation_overflow
FM_handle_conversation_overflow(s, overflow_fields, m, jira_field, tracker, pool) ==
    FM_handle_category_overflow(
        FM_split_conversation_data(s, m, Len(overflow_fields)),
        overflow_fields, jira_field, tracker, pool)

\* FieldMapper._handle_attachment_overflow
FM_handle_attachment_overflow(s, overflow_fields, m, jira_field, tracker, pool) ==
    FM_handle_category_overflow(
        FM_split_attachment_data(s, m, Len(overflow_fields)),
        overflow_fields, jira_field, tracker, pool)

\* FieldMapper._handle_data_overflow
FM_handle_data_overflow(s, data_type, parent_mapping, jira_field, tracker, pool) ==
    LET overflow_fields == parent_mapping.overflow_fields
        additional_overflow_fields == parent_mapping.additional_overflow_fields
        m == ParentMaxLength(parent_mapping)
        all_overflow_fields == overflow_fields \o additional_overflow_fields
    IN IF Len(s) <= m
       THEN [assigns |-> <<Assign(jira_field, s)>>, tracker |-> tracker]
       ELSE IF data_type = "conversation_fields"
       THEN FM_handle_conversation_overflow(s, overflow_fields, m, jira_field, tracker, pool)
       ELSE IF data_type = "attachment_fields"
       THEN FM_handle_attachment_overflow(s, overflow_fields, m, jira_field, tracker, pool)
       ELSE IF all_overflow_fields = <<>>
       THEN [assigns |-> <<Assign(jira_field, s)>>, tracker |-> tracker]
       ELSE [assigns |->
                 AssignChunks(jira_field, all_overflow_fields,
                              FM_split_generic_data(s, m, Len(all_overflow_fields),
                                                    data_type)),
             tracker |-> tracker]

\* FieldMapper.handle_description_overflow
FM_handle_description_overflow(description, m, pool) ==
    IF Len(description) <= m
    THEN <<Assign("description", description)>>
    ELSE AssignChunks("description", pool,
                      FM_split_description_data(description, m, Len(pool)))

-----------------------------------------------------------------------------
(* Transform Registry: config/mapper_functions.py *)

\* the outcome of a call that raised
Raised == [t |-> "raised", i |-> 0, s |-> <<>>]

\* priority_mapping.get(freshdesk_priority, "Medium"); True hashes and compares as 1.
\* A dict is unhashable: the lookup raises TypeError.
map_priority(freshdesk_priority) ==
    IF freshdesk_priority.t = "dict" THEN Raised
    ELSE IF freshdesk_priority.t \in {"int", "bool"} /\ freshdesk_priority.i \in 1..4
    THEN VStr(<<MF_text.TxtLow, MF_text.TxtMedium, MF_text.TxtHigh, MF_text.TxtUrgent>>[freshdesk_priority.i])
    ELSE VStr(MF_text.TxtMedium)

\* map_user_from_id: an agent without an email falls through to the contacts
map_user_from_id(user_id, user_data) ==
    IF ~Truthy(user_id) \/ ~user_data.present THEN VStr(FM_text.TxtUnknown)
    ELSE LET key == Str(user_id)
             id == ParseNat(key)
         IN IF KeyIn(key, user_data.agents)
               /\ EntryOf(user_data.agents, id).has_contact
               /\ EntryOf(user_data.agents, id).email # <<>>
            THEN VStr(EntryOf(user_data.agents, id).email)
            ELSE IF KeyIn(key, user_data.contacts)
                    /\ EntryOf(user_data.contacts, id).email # <<>>
            THEN VStr(EntryOf(user_data.contacts, id).email)
            ELSE VStr(FM_text.TxtUnknown)

\* map_user_to_system_field: {"name": email}, or None when the user is not found
map_user_to_system_field(user_id, user_data) ==
    IF ~Truthy(user_id) \/ ~user_data.present THEN VNone
    ELSE LET key == Str(user_id)
             id == ParseNat(key)
         IN IF KeyIn(key, user_data.agents)
               /\ EntryOf(user_data.agents, id).has_contact
               /\ EntryOf(user_data.agents, id).email # <<>>
            THEN VDict(EntryOf(user_data.agents, id).email)
            ELSE IF KeyIn(key, user_data.contacts)
                    /\ EntryOf(user_data.contacts, id).email # <<>>
            THEN VDict(EntryOf(user_data.contacts, id).email)
            ELSE VNone

\* date_string.replace('Z', '+00:00')
RECURSIVE ReplaceZ(_)
ReplaceZ(s) ==
    IF s = <<>> THEN <<>>
    ELSE (IF Head(s) = "Z" THEN <<"+", "0", "0", ":", "0", "0">> ELSE <<Head(s)>>)
         \o ReplaceZ(Tail(s))

\* the number written at s[a..b], -1 when those characters are not all digits
NumAt(s, a, b) == IF b <= Len(s) /\ IsDigits(SubSeq(s, a, b)) THEN ParseNat(SubSeq(s, a, b)) ELSE -1

IsLeap(y) == (y % 4 = 0 /\ y % 100 # 0) \/ y % 400 = 0

DaysInMonth(y, m) ==
    IF m = 2 THEN (IF IsLeap(y) THEN 29 ELSE 28)
    ELSE IF m \in {4, 6, 9, 11} THEN 30 ELSE 31

\* 'YYYY-MM-DD' at the head of s names a day of the calendar
DateOk(s) ==
    /\ Len(s) >= 10
    /\ s[5] = "-" /\ s[8] = "-"
    /\ NumAt(s, 1, 4) >= 1
    /\ NumAt(s, 6, 7) \in 1..12
    /\ NumAt(s, 9, 10) \in 1..DaysInMonth(NumAt(s, 1, 4), NumAt(s, 6, 7))

\* t is 'HH', 'HH:MM' or 'HH:MM:SS' within the ranges of a clock
TimeOk(t) ==
    /\ Len(t) \in {2, 5, 8}
    /\ NumAt(t, 1, 2) \in 0..23
    /\ Len(t) >= 5 => t[3] = ":" /\ NumAt(t, 4, 5) \in 0..59
    /\ Len(t) = 8 => t[6] = ":" /\ NumAt(t, 7, 8) \in 0..59

\* z is empty, or '+HH:MM' or '-HH:MM' below 24 hours
OffsetOk(z) ==
    \/ z = <<>>
    \/ /\ Len(z) = 6
       /\ z[1] \in {"+", "-"}
       /\ NumAt(z, 2, 3) \in 0..23
       /\ z[4] = ":"
       /\ NumAt(z, 5, 6) \in 0..59

\* where the UTC offset starts in r, the text after the separator: Len(r) + 1 without one
OffsetAt(r) ==
    IF \E k \in 1..Len(r) : r[k] \in {"+", "-"}
    THEN CHOOSE k \in 1..Len(r) : r[k] \in {"+", "-"} /\ \A j \in 1..(k - 1) : r[j] \notin {"+", "-"}
    ELSE Len(r) + 1

NoDateTime == [ok |-> FALSE, year |-> 0, month |-> 0, day |-> 0, hour |-> 0, minute |-> 0, second |-> 0]

\* the datetime of a date s and a clock text t; missing parts of the clock are 0
DateTimeOf(s, t) ==
    [ok |-> TRUE, year |-> NumAt(s, 1, 4), month |-> NumAt(s, 6, 7), day |-> NumAt(s, 9, 10),
     hour |-> IF Len(t) >= 2 THEN NumAt(t, 1, 2) ELSE 0,
     minute |-> IF Len(t) >= 5 THEN NumAt(t, 4, 5) ELSE 0,
     second |-> IF Len(t) >= 8 THEN NumAt(t, 7, 8) ELSE 0]

\* the clock and the offset of r, the text after the separator, accepted or not
ClockOf(s, r, at) ==
    IF TimeOk(SubSeq(r, 1, at - 1)) /\ OffsetOk(SubSeq(r, at, Len(r)))
    THEN DateTimeOf(s, SubSeq(r, 1, at - 1))
    ELSE NoDateTime

\* datetime.fromisoformat on the texts 'YYYY-MM-DD', optionally followed by one
\* separator character, a clock 'HH', 'HH:MM' or 'HH:MM:SS' and an offset
\* '+HH:MM' or '-HH:MM'; on any other text of the model it raises ValueError
\* (ok FALSE). The offset is kept as tzinfo and does not move the clock.
fromisoformat(s) ==
    IF ~DateOk(s) THEN NoDateTime
    ELSE IF Len(s) = 10 THEN DateTimeOf(s, <<>>)
    ELSE ClockOf(s, SubSeq(s, 12, Len(s)), OffsetAt(SubSeq(s, 12, Len(s))))

\* str(n) padded with zeros on the left to the given width
Pad(n, width) == Rep("0", width - Len(StrInt(n))) \o StrInt(n)

\* dt.strftime('%Y-%m-%d %H:%M:%S')
strftime(dt) ==
    Pad(dt.year, 4) \o <<"-">> \o Pad(dt.month, 2) \o <<"-">> \o Pad(dt.day, 2) \o <<" ">>
    \o Pad(dt.hour, 2) \o <<":">> \o Pad(dt.minute, 2) \o <<":">> \o Pad(dt.second, 2)

\* format_date: "" for a falsy value; a value without .replace (AttributeError) and
\* a text fromisoformat rejects (ValueError) are returned as they are
format_date(date_string) ==
    IF ~Truthy(date_string) THEN VStr(<<>>)
    ELSE IF date_string.t # "str" THEN date_string
    ELSE IF fromisoformat(ReplaceZ(date_string.s)).ok
    THEN VStr(strftime(fromisoformat(ReplaceZ(date_string.s))))
    ELSE date_string

\* truncate_text(text, max_length), max_len its max_length; len() of a number raises TypeError, a dict
\* {"name": email} has len() 1, and text[:max_length-3] with a negative bound
\* drops the last 3 - max_length characters
truncate_text(text, max_len) ==
    IF ~Truthy(text) THEN VStr(<<>>)
    ELSE IF text.t \in {"int", "bool"} THEN Raised
    ELSE IF text.t = "dict" THEN (IF 1 <= max_len THEN text ELSE Raised)
    ELSE IF Len(text.s) <= max_len THEN text
    ELSE VStr(Prefix(text.s, max_len - 3) \o FM_text.TxtEllipsis)

\* the tuple of map_boolean without 'true'
TrueWords_without_true == {<<"1">>, <<"y", "e", "s">>, <<"o", "n">>}

TrueWords == {<<"t", "r", "u", "e">>, <<"1">>, <<"y", "e", "s">>, <<"o", "n">>}

\* map_boolean
map_boolean(value) ==
    CASE value.t = "bool" -> VStr(IF value.i = 1 THEN MF_text.TxtLowerTrue ELSE MF_text.TxtLowerFalse)
      [] value.t = "str" ->
             VStr(IF Lower(value.s) \in TrueWords THEN MF_text.TxtLowerTrue ELSE MF_text.TxtLowerFalse)
      [] value.t = "int" -> VStr(IF value.i # 0 THEN MF_text.TxtLowerTrue ELSE MF_text.TxtLowerFalse)
      [] OTHER -> VStr(MF_text.TxtLowerFalse)

\* map_number: str(int(value)), "" when int() raises ValueError or TypeError
map_number(value) ==
    CASE value.t = "none" -> VStr(<<>>)
      [] value.t \in {"int", "bool"} -> VStr(StrInt(value.i))
      [] value.t = "str" ->
             (IF IsDigits(value.s) THEN VStr(StrInt(ParseNat(value.s))) ELSE VStr(<<>>))
      [] OTHER -> VStr(<<>>)

\* map_id_to_string
map_id_to_string(value) ==
    IF value.t = "none" THEN VStr(<<>>) ELSE VStr(Str(value))

\* the names of MAPPER_FUNCTIONS that the mapping tables of the model use
MAPPER_FUNCTIONS ==
    {"map_priority", "map_user_from_id", "map_user_to_system_field", "truncate_text",
     "map_boolean", "map_number", "map_id_to_string"}

\* mapper_func(value): the call with the value alone, user_data left at its default
CallMapper(function_name, value) ==
    CASE function_name = "map_priority" -> map_priority(value)
      [] function_name = "map_user_from_id" -> map_user_from_id(value, NoUserData)
      [] function_name = "map_user_to_system_field" ->
             map_user_to_system_field(value, NoUserData)
      [] function_name = "truncate_text" -> truncate_text(value, FieldLimit)
      [] function_name = "map_boolean" -> map_boolean(value)
      [] function_name = "map_number" -> map_number(value)
      [] function_name = "map_id_to_string" -> map_id_to_string(value)

\* an except clause that re-raises instead of returning the value
ExceptReraise(result, value) == result

\* "try: return mapper_func(...) except Exception: return value"
ExceptReturn(result, value) == IF result = Raised THEN value ELSE result

\* the call apply_mapper_function makes inside its try block
ResolvedCall(function_name, value, context) ==
    IF function_name = "map_user_from_id" /\ context.present
    THEN map_user_from_id(value, context)
    ELSE CallMapper(function_name, value)

\* apply_mapper_function; function_name "" is a missing or empty name
apply_mapper_function(function_name, value, context) ==
    IF function_name = "" THEN value
    ELSE IF function_name \notin MAPPER_FUNCTIONS THEN value
    ELSE ExceptReturn(ResolvedCall(function_name, value, context), value)

-----------------------------------------------------------------------------
(* FieldMapper: ticket fields *)

\* the ceiling of the summary and the length kept before the ellipsis
SummaryLimit == 255

SummaryKeep == 252

\* self.field_mapping.get(field_category, {}) for the ticket fields
TicketFieldEntries(table) == table.ticket_fields

\* FieldMapper.is_field_mapped; an entry's jira_field "" is a missing jira_field
FM_is_field_mapped(table, field_name) ==
    /\ HasKey(TicketFieldEntries(table), field_name)
    /\ Lookup(TicketFieldEntries(table), field_name).jira_field # ""

\* FieldMapper.get_unmapped_fields
RECURSIVE FM_get_unmapped_fields(_, _)
FM_get_unmapped_fields(items, table) ==
    IF items = <<>> THEN <<>>
    ELSE (IF FM_is_field_mapped(table, Head(items).f) THEN <<>> ELSE <<Head(items)>>)
         \o FM_get_unmapped_fields(Tail(items), table)

\* FieldMapper.map_field_value_with_system_field; "" stands for a None field name
FM_map_field_value_with_system_field(field_name, field_value, table, context) ==
    IF ~FM_is_field_mapped(table, field_name)
    THEN [jira_field |-> "", mapped_value |-> VNone,
          system_field |-> "", system_field_value |-> VNone]
    ELSE LET mapping == Lookup(TicketFieldEntries(table), field_name)
         IN [jira_field |-> mapping.jira_field,
             mapped_value |-> apply_mapper_function(mapping.mapper_function,
                                                    field_value, context),
             system_field |-> mapping.system_field,
             system_field_value |->
                 IF mapping.system_field # "" /\ mapping.system_mapper_function # ""
                 THEN apply_mapper_function(mapping.system_mapper_function,
                                            field_value, context)
                 ELSE VNone]

\* a plain truthiness test in place of the chain: "if jira_field and mapped_value"
FM_value_admitted_if_truthy(mapped_value) == Truthy(mapped_value)

\* the if/elif chain of map_ticket_fields that decides whether mapped_value is written
FM_value_admitted(mapped_value) ==
    \/ mapped_value.t # "none"
    \/ (mapped_value.t = "bool" /\ mapped_value.i = 0)
    \/ (mapped_value.t \in {"bool", "int"} /\ mapped_value.i = 0)
    \/ (mapped_value.t = "str" /\ mapped_value.s = <<>>)
    \/ (mapped_value.t = "str" /\ mapped_value.s = MF_text.TxtLowerFalse)
    \/ (mapped_value.t = "str" /\ mapped_value.s = <<"0">>)
    \/ mapped_value.t = "str"

\* the assignments made from the tuple map_field_value_with_system_field returned
FM_ticket_field_writes(r) ==
    (IF r.jira_field # "" /\ FM_value_admitted(r.mapped_value)
     THEN <<Assign(r.jira_field, r.mapped_value)>> ELSE <<>>)
    \o (IF r.system_field # "" /\ r.system_field_value.t # "none"
        THEN <<Assign(r.system_field, r.system_field_value)>> ELSE <<>>)

\* the assignments one pass of the loop over ticket_data.items() makes
FM_map_one_ticket_field(item, table, user_data) ==
    FM_ticket_field_writes(
        FM_map_field_value_with_system_field(item.f, item.v, table, user_data))

RECURSIVE FM_map_ticket_loop(_, _, _)
FM_map_ticket_loop(items, table, user_data) ==
    IF items = <<>> THEN <<>>
    ELSE FM_map_one_ticket_field(Head(items), table, user_data)
         \o FM_map_ticket_loop(Tail(items), table, user_data)

\* d.get(k, default)
Get(d, k, default) == IF HasKey(d, k) THEN Lookup(d, k) ELSE default

\* f"Freshdesk Ticket #{ticket_id}: No Subject Provided"
FallbackSummary(ticket_data) ==
    FM_text.SummaryPrefix \o Str(Get(ticket_data, "id", VStr(FM_text.TxtUnknown))) \o FM_text.SummarySuffix

\* the summary map_ticket_fields computes from the subject (a str or None)
FM_ticket_summary(ticket_data) ==
    LET summary == Get(ticket_data, "subject", VStr(<<>>))
    IN IF ~Truthy(summary) \/ Strip(summary.s) = <<>>
       THEN FallbackSummary(ticket_data)
       ELSE IF Len(Strip(summary.s)) > SummaryLimit
       THEN SubSeq(Strip(summary.s), 1, SummaryKeep) \o FM_text.TxtEllipsis
       ELSE Strip(summary.s)

\* FieldMapper.map_ticket_fields: the assignments to mapped_fields in the order they
\* are made; the dict returned is Items() of them
FM_map_ticket_fields_writes(ticket_data, user_data, table) ==
    <<Assign("summary", VStr(FM_ticket_summary(ticket_data)))>>
    \o FM_map_ticket_loop(Items(ticket_data), table, user_data)

FM_map_ticket_fields(ticket_data, user_data, table) ==
    [mapped_fields |-> Items(FM_map_ticket_fields_writes(ticket_data, user_data, table)),
     unmapped_fields |-> FM_get_unmapped_fields(Items(ticket_data), table)]

-----------------------------------------------------------------------------
(* Record Formatter *)

\* sep.join(parts)
RECURSIVE Join(_, _)
Join(parts, sep) ==
    IF parts = <<>> THEN <<>>
    ELSE IF Len(parts) = 1 THEN parts[1]
    ELSE parts[1] \o sep \o Join(Tail(parts), sep)

\* the lookup the formatters make inline: agents first and, only for an id that is
\* no agent, contacts; 'NA' when no email is found.  A user_id of 0 is a missing one.
\* a lookup that searches the contacts before the agents
InlineUserEmail_contacts_first(user_data, user_id) ==
    IF user_data.present /\ user_id # 0
    THEN IF HasEntry(user_data.contacts, user_id)
            /\ EntryOf(user_data.contacts, user_id).email # <<>>
         THEN EntryOf(user_data.contacts, user_id).email
         ELSE IF HasEntry(user_data.agents, user_id)
                 /\ EntryOf(user_data.agents, user_id).has_contact
                 /\ EntryOf(user_data.agents, user_id).email # <<>>
         THEN EntryOf(user_data.agents, user_id).email
         ELSE FM_text.TxtNA
    ELSE FM_text.TxtNA

InlineUserEmail(user_data, user_id) ==
    IF user_data.present /\ user_id # 0
    THEN IF HasEntry(user_data.agents, user_id)
         THEN LET agent == EntryOf(user_data.agents, user_id)
              IN IF agent.has_contact /\ agent.email # <<>> THEN agent.email ELSE FM_text.TxtNA
         ELSE IF HasEntry(user_data.contacts, user_id)
                 /\ EntryOf(user_data.contacts, user_id).email # <<>>
         THEN EntryOf(user_data.contacts, user_id).email
         ELSE FM_text.TxtNA
    ELSE FM_text.TxtNA

\* the five lines one conversation contributes ("lines.extend([...])")
ConversationLines(conv, user_data) ==
    << Join(<< FM_text.TxtNSlashA, FM_text.TxtNSlashA, StrInt(conv.id),
               InlineUserEmail(user_data, conv.user_id),
               IF conv.private THEN FM_text.TxtPrivate ELSE FM_text.TxtPublic,
               <<>>, FM_text.TxtNSlashA, <<>>, <<>> >>, FM_text.Pipe),
       <<>>,
       conv.body_text,
       FM_text.Dashes,
       <<>> >>

RECURSIVE AllConversationLines(_, _)
AllConversationLines(convs, user_data) ==
    IF convs = <<>> THEN <<>>
    ELSE ConversationLines(Head(convs), user_data)
         \o AllConversationLines(Tail(convs), user_data)

\* FieldMapper._format_conversations_for_parent
FM_format_conversations_for_parent(convs, user_data) ==
    IF convs = <<>> THEN <<>>
    ELSE Join(<<FM_text.ConvTitle, FM_text.ConvHeaders>> \o AllConversationLines(convs, user_data), FM_text.NL)

\* TicketConverter._format_conversations_colon_separated
TC_format_conversations_colon_separated(convs, user_data) ==
    IF convs = <<>> THEN <<>>
    ELSE Join(<<FM_text.ConvTitle, FM_text.ConvHeaders>> \o AllConversationLines(convs, user_data), FM_text.NL)

\* the line one attachment contributes; a conversation_id of 0 is a missing one
AttachmentLine(att, user_data) ==
    Join(<< FM_text.TxtNSlashA, FM_text.TxtNSlashA, StrInt(att.id),
            StrInt(att.id) \o <<"_">> \o att.name,
            StrInt(att.size),
            InlineUserEmail(user_data, att.user_id),
            IF att.conversation_id = 0 THEN FM_text.TxtNSlashA ELSE StrInt(att.conversation_id) >>,
         FM_text.Pipe)

RECURSIVE AllAttachmentLines(_, _)
AllAttachmentLines(atts, user_data) ==
    IF atts = <<>> THEN <<>>
    ELSE <<AttachmentLine(Head(atts), user_data)>>
         \o AllAttachmentLines(Tail(atts), user_data)

\* FieldMapper._format_attachments_for_parent
FM_format_attachments_for_parent(atts, user_data) ==
    IF atts = <<>> THEN <<>>
    ELSE Join(<<FM_text.AttTitle, FM_text.FM_AttHeaders>> \o AllAttachmentLines(atts, user_data), FM_text.NL)

\* TicketConverter._format_attachments_colon_separated
TC_format_attachments_colon_separated(atts, user_data) ==
    IF atts = <<>> THEN <<>>
    ELSE Join(<<FM_text.AttTitle, TC_text.TC_AttHeaders>> \o AllAttachmentLines(atts, user_data), FM_text.NL)

\* the characters of a field name
NameText(field_name) ==
    CASE field_name = "id" -> <<"i", "d">>
      [] field_name = "subject" -> <<"s", "u", "b", "j", "e", "c", "t">>
      [] field_name = "description_text" -> <<"d", "e", "s", "c", "r", "i", "p", "t", "i", "o", "n", "_", "t", "e", "x", "t">>
      [] field_name = "description" -> <<"d", "e", "s", "c", "r", "i", "p", "t", "i", "o", "n">>
      [] field_name = "structured_description" -> <<"s", "t", "r", "u", "c", "t", "u", "r", "e", "d", "_", "d", "e", "s", "c", "r", "i", "p", "t", "i", "o", "n">>
      [] field_name = "body" -> <<"b", "o", "d", "y">>
      [] field_name = "priority" -> <<"p", "r", "i", "o", "r", "i", "t", "y">>
      [] field_name = "responder_id" -> <<"r", "e", "s", "p", "o", "n", "d", "e", "r", "_", "i", "d">>
      [] field_name = "is_escalated" -> <<"i", "s", "_", "e", "s", "c", "a", "l", "a", "t", "e", "d">>
      [] field_name = "cf_note" -> <<"c", "f", "_", "n", "o", "t", "e">>
      [] field_name = "name" -> <<"n", "a", "m", "e">>
      [] field_name = "email" -> <<"e", "m", "a", "i", "l">>

\* json.dumps of a value: a str between quotes (the strings of the model hold no
\* character that json escapes), an int in digits, true, false, null
JsonValue(v) ==
    CASE v.t = "str" -> <<"\"">> \o v.s \o <<"\"">>
      [] v.t = "int" -> StrInt(v.i)
      [] v.t = "bool" -> (IF v.i = 1 THEN MF_text.TxtLowerTrue ELSE MF_text.TxtLowerFalse)
      [] OTHER -> <<"n", "u", "l", "l">>

\* one '  "key": value' line of json.dumps(data, indent=2)
RECURSIVE JsonLines(_)
JsonLines(d) ==
    IF d = <<>> THEN <<>>
    ELSE << <<" ", " ", "\"">> \o NameText(Head(d).f) \o <<"\"", ":", " ">>
            \o JsonValue(Head(d).v) >>
         \o JsonLines(Tail(d))

\* json.dumps(data, indent=2) of a flat dict: what
\* FieldMapper._format_data_for_parent_field returns for ticket_fields and user_fields
FM_format_data_for_parent_field(d) ==
    IF d = <<>> THEN <<"{", "}">>
    ELSE <<"{", "\n">> \o Join(JsonLines(Items(d)), <<",", "\n">>) \o <<"\n", "}">>

-----------------------------------------------------------------------------
(* FieldMapper: hierarchical mapping *)

\* FieldMapper.is_parent_field_mapped; an entry's jira_field "" is a missing jira_field
FM_is_parent_field_mapped(table, data_type) ==
    /\ HasKey(table.parent_fields, data_type)
    /\ Lookup(table.parent_fields, data_type).jira_field # ""

\* FieldMapper.map_hierarchical_fields for a category held as a list (conversations,
\* attachments) or, under a parent mapping, as a flat dict.  Returns the assignments
\* to mapped_fields, unmapped_fields and the cursor afterwards.
FM_format_parent_data(d, data_type, user_data) ==
    CASE data_type = "conversation_fields" -> FM_format_conversations_for_parent(d, user_data)
      [] data_type = "attachment_fields" -> FM_format_attachments_for_parent(d, user_data)
      [] OTHER -> FM_format_data_for_parent_field(d)

\* "mapped_fields.update(overflow_data)"
FM_overflow_mapped(overflow) ==
    [mapped |-> overflow.assigns, unmapped |-> <<>>, tracker |-> overflow.tracker]

\* the branch of map_hierarchical_fields under a parent mapping, formatted_data made
FM_map_parent_field(formatted_data, data_type, parent_mapping, tracker, pool) ==
    IF data_type \in {"conversation_fields", "attachment_fields"}
       \/ parent_mapping.overflow_fields # <<>>
       \/ parent_mapping.additional_overflow_fields # <<>>
    THEN FM_overflow_mapped(
             FM_handle_data_overflow(formatted_data, data_type, parent_mapping,
                                     parent_mapping.jira_field, tracker, pool))
    ELSE [mapped |-> <<Assign(parent_mapping.jira_field, formatted_data)>>,
          unmapped |-> <<>>, tracker |-> tracker]

FM_map_hierarchical_fields(d, data_type, user_data, table, tracker, pool) ==
    IF FM_is_parent_field_mapped(table, data_type)
    THEN FM_map_parent_field(FM_format_parent_data(d, data_type, user_data), data_type,
                             Lookup(table.parent_fields, data_type), tracker, pool)
    ELSE [mapped |-> <<>>, unmapped |-> d, tracker |-> tracker]

-----------------------------------------------------------------------------
(* TicketConverter *)

\* FD_additional_info1-10, as each overflow handler of TicketConverter lists them
TC_additional_info_fields ==
    <<"customfield_10357", "customfield_10358", "customfield_10359",
      "customfield_10360", "customfield_10361", "customfield_10362",
      "customfield_10363", "customfield_10364", "customfield_10365",
      "customfield_10366">>

\* TicketConverter._handle_description_overflow
TC_handle_description_overflow(full_description, m) ==
    IF Len(full_description) <= m
    THEN <<Assign("description", full_description)>>
    ELSE AssignChunks("description", TC_additional_info_fields,
                      TC_split_description_data(full_description, m, 10))

\* TicketConverter._handle_conversation_overflow
TC_handle_conversation_overflow(conversation_data, original_field) ==
    IF Len(conversation_data) <= FieldLimit
    THEN <<Assign(original_field, conversation_data)>>
    ELSE AssignChunks(original_field, <<"customfield_10355">> \o TC_additional_info_fields,
                      TC_split_conversation_data(conversation_data, FieldLimit))

\* TicketConverter._handle_attachment_overflow
TC_handle_attachment_overflow(attachment_data, original_field) ==
    IF Len(attachment_data) <= FieldLimit
    THEN <<Assign(original_field, attachment_data)>>
    ELSE AssignChunks(original_field, <<"customfield_10356">> \o TC_additional_info_fields,
                      TC_split_attachment_data(attachment_data, FieldLimit))

\* an assignment to jira_issue["fields"], with the part of the converter that made it
Write(k, v, w) == [f |-> k, v |-> v, w |-> w]

TagValues(assigns, w) ==
    [j \in 1..Len(assigns) |-> Write(assigns[j].f, assigns[j].v, w)]

TagTexts(assigns, w) ==
    [j \in 1..Len(assigns) |-> Write(assigns[j].f, VStr(assigns[j].v), w)]

\* {"key": "FTJM"} and {"name": "Task"}
DefaultProject == [t |-> "project", i |-> 0, s |-> <<"F", "T", "J", "M">>]

DefaultIssueType == [t |-> "issuetype", i |-> 0, s |-> <<"T", "a", "s", "k">>]

\* the loop over conv_mapped_fields.items() (kind "conversation") or
\* att_mapped_fields.items() (kind "attachment")
RECURSIVE TC_category_writes(_, _)
TC_category_writes(items, kind) ==
    IF items = <<>> THEN <<>>
    ELSE LET field_name == Head(items).f
             field_value == Head(items).v
         IN (IF Len(field_value) > FieldLimit
             THEN TagTexts(Items(IF kind = "conversation"
                                 THEN TC_handle_conversation_overflow(field_value, field_name)
                                 ELSE TC_handle_attachment_overflow(field_value, field_name)),
                           kind)
             ELSE <<Write(field_name, VStr(field_value), kind)>>)
            \o TC_category_writes(Tail(items), kind)

\* the "name: value" lines of the metadata block
RECURSIVE TC_metadata_lines(_)
TC_metadata_lines(items) ==
    IF items = <<>> THEN <<>>
    ELSE LET field_name == Head(items).f
             field_value == Head(items).v
         IN (IF field_name \in {"description", "structured_description", "description_text"}
                \/ field_value.t = "none"
                \/ field_value = VStr(<<>>)
             THEN <<>>
             ELSE <<NameText(field_name) \o <<":", " ">> \o Str(field_value)>>)
            \o TC_metadata_lines(Tail(items))

\* the description section and the metadata section, as entries of description_parts
TC_ticket_description_parts(ticket, unmapped_ticket_fields) ==
    LET description_text ==
            Get(ticket, "description_text", Get(ticket, "description", VStr(<<>>)))
        metadata_lines == <<TC_text.MetaTitle>> \o TC_metadata_lines(Items(unmapped_ticket_fields))
    IN (IF Truthy(description_text) THEN <<TC_text.DescTitle \o Str(description_text)>> ELSE <<>>)
       \o (IF unmapped_ticket_fields # <<>> /\ Len(metadata_lines) > 1
           THEN <<Join(metadata_lines, FM_text.NL)>> ELSE <<>>)

\* "ticket_attachments + conversation_attachments if both else (one or other or [])"
\* a union that lists the conversation attachments first
TC_all_attachments_conversation_first(ticket_attachments, conversation_attachments) ==
    conversation_attachments \o ticket_attachments

TC_all_attachments(ticket_attachments, conversation_attachments) ==
    IF ticket_attachments # <<>> /\ conversation_attachments # <<>>
    THEN ticket_attachments \o conversation_attachments
    ELSE IF ticket_attachments # <<>> THEN ticket_attachments
    ELSE conversation_attachments

\* the writes of the description once description_parts is complete
TC_description_overflow_writes(overflow_mappings) ==
    TagTexts(overflow_mappings, "description")
    \o <<Write("description", VStr(Lookup(overflow_mappings, "description")),
               "description")>>

TC_full_description_writes(full_description) ==
    IF Len(full_description) > FieldLimit
    THEN TC_description_overflow_writes(
             Items(TC_handle_description_overflow(full_description, FieldLimit)))
    ELSE <<Write("description", VStr(full_description), "description")>>

TC_description_writes(description_parts) ==
    IF description_parts = <<>> THEN <<>>
    ELSE TC_full_description_writes(Join(description_parts, FM_text.NLNL))

\* lines 93-94: the conversations go through FieldMapper.map_hierarchical_fields
TC_map_conversations(conversations, user_data, table, tracker, pool) ==
    IF conversations # <<>>
    THEN FM_map_hierarchical_fields(conversations, "conversation_fields",
                                    user_data, table, tracker, pool)
    ELSE [mapped |-> <<>>, unmapped |-> <<>>, tracker |-> tracker]

\* lines 115-116: the attachments go through FieldMapper.map_hierarchical_fields
TC_map_attachments(all_attachments, user_data, table, tracker, pool) ==
    IF all_attachments # <<>>
    THEN FM_map_hierarchical_fields(all_attachments, "attachment_fields",
                                    user_data, table, tracker, pool)
    ELSE [mapped |-> <<>>, unmapped |-> <<>>, tracker |-> tracker]

\* the rest of convert_to_jira_issue, given what the two calls above returned:
\* whether it raised and the assignments made to jira_issue["fields"], in order
\* summary.strip() raises AttributeError on a summary that is neither falsy nor a str
TC_summary_strip_raises(summary) == Truthy(summary) /\ summary.t # "str"

\* lines 61-64: "if not summary or summary.strip() == ''" sets the default summary
TC_summary_writes(ticket, summary) ==
    IF ~Truthy(summary) \/ Strip(summary.s) = <<>>
    THEN <<Write("summary", VStr(FallbackSummary(ticket)), "ticket")>>
    ELSE <<>>

\* description_parts that take the rendered categories whether or not they were
\* mapped to a parent field
TC_description_parts_duplicating(ticket, conversations, all_attachments, user_data, unmapped_ticket_fields, conv, att) ==
    TC_ticket_description_parts(ticket, unmapped_ticket_fields)
    \o <<TC_format_conversations_colon_separated(conversations, user_data)>>
    \o <<TC_format_attachments_colon_separated(all_attachments, user_data)>>

\* description_parts: the ticket's own parts and the categories left unmapped
TC_description_parts(ticket, conversations, all_attachments, user_data, unmapped_ticket_fields, conv, att) ==
    TC_ticket_description_parts(ticket, unmapped_ticket_fields)
    \o (IF conv.unmapped # <<>> /\ conv.mapped = <<>>
        THEN <<TC_format_conversations_colon_separated(conversations, user_data)>>
        ELSE <<>>)
    \o (IF att.unmapped # <<>> /\ att.mapped = <<>>
        THEN <<TC_format_attachments_colon_separated(all_attachments, user_data)>>
        ELSE <<>>)

\* the conversion from the summary fix-up on, mt being what map_ticket_fields
\* returned
TC_assemble_mapped(ticket, conversations, all_attachments, user_data, mt, conv, att) ==
    IF TC_summary_strip_raises(Lookup(mt.mapped_fields, "summary"))
    THEN [raised |-> TRUE, writes |-> <<>>]
    ELSE [raised |-> FALSE,
          writes |-> <<Write("project", DefaultProject, "init"),
                       Write("issuetype", DefaultIssueType, "init")>>
                     \o TagValues(mt.mapped_fields, "ticket")
                     \o TC_summary_writes(ticket, Lookup(mt.mapped_fields, "summary"))
                     \o TC_category_writes(Items(conv.mapped), "conversation")
                     \o TC_category_writes(Items(att.mapped), "attachment")
                     \o TC_description_writes(
                            TC_description_parts(ticket, conversations, all_attachments,
                                                 user_data, mt.unmapped_fields,
                                                 conv, att))]

TC_assemble(ticket, conversations, all_attachments, user_data, table, conv, att) ==
    TC_assemble_mapped(ticket, conversations, all_attachments, user_data,
                       FM_map_ticket_fields(ticket, user_data, table), conv, att)

\* the summary fix-up of lines 61-64 raises AttributeError on a summary that is
\* neither falsy nor a str, before either category is mapped
TC_summary_raises(ticket, user_data, table) ==
    TC_summary_strip_raises(
        Lookup(FM_map_ticket_fields(ticket, user_data, table).mapped_fields, "summary"))

\* TicketConverter.convert_to_jira_issue on a FieldMapper whose table, cursor and pool
\* are given: whether it raised, the assignments made to jira_issue["fields"] in
\* order, and the cursor afterwards
TC_converted(r, att) == [raised |-> FALSE, writes |-> r.writes, tracker |-> att.tracker]

\* from the attachments on: conv is what map_hierarchical_fields returned for the
\* conversations, att what it returned for the attachments
TC_convert_attachments_mapped(ticket, conversations, all_attachments, user_data, table, conv, att) ==
    TC_converted(TC_assemble(ticket, conversations, all_attachments, user_data, table,
                             conv, att),
                 att)

TC_convert_conversations_mapped(ticket, conversations, all_attachments, user_data, table, pool, conv) ==
    TC_convert_attachments_mapped(
        ticket, conversations, all_attachments, user_data, table, conv,
        TC_map_attachments(all_attachments, user_data, table, conv.tracker, pool))

\* rendering the conversation raises TypeError: ', '.join(None) for a null
\* to_emails, cc_emails or bcc_emails, and '\n'.join(lines) with the None that a null
\* body_text leaves in lines; both formatters of conversations do the same
FormatConversationRaises(conv) ==
    conv.nulls \cap {"to_emails", "cc_emails", "bcc_emails", "body_text"} # {}

\* a formatter of conversations is called, for the parent field or for the
\* description, whenever the list has a conversation
TC_conversations_raise(conversations) ==
    \E k \in 1..Len(conversations) : FormatConversationRaises(conversations[k])

TC_convert_to_jira_issue(ticket, conversations, ticket_attachments, conversation_attachments, user_data, table, tracker, pool) ==
    IF TC_summary_raises(ticket, user_data, table) \/ TC_conversations_raise(conversations)
    THEN [raised |-> TRUE, writes |-> <<>>, tracker |-> tracker]
    ELSE TC_convert_conversations_mapped(
             ticket, conversations,
             TC_all_attachments(ticket_attachments, conversation_attachments),
             user_data, table, pool,
             TC_map_conversations(conversations, user_data, table, tracker, pool))

\* Config.project_key and Config.issue_type when the environment does not set them
ConfigProject == [t |-> "project", i |-> 0, s |-> <<"F", "T", "J", "M">>]

ConfigIssueType ==
    [t |-> "issuetype", i |-> 0,
     s |-> <<"F", "D", "_", "M", "i", "g", "r", "a", "t", "i", "o", "n">>]

\* TicketConverter.set_project_key(jira_issue, self.config.project_key)
TC_set_project_key(writes) ==
    Append(writes, Write("project", ConfigProject, "set_project_key"))

\* TicketConverter.set_issue_type(jira_issue, self.config.issue_type)
TC_set_issue_type(writes) ==
    Append(writes, Write("issuetype", ConfigIssueType, "set_issue_type"))

\* list(d.keys())
KeyList(d) == [j \in 1..Len(Items(d)) |-> Items(d)[j].f]

\* "len(mapped_fields) / len(ticket) if ticket else 0": the quotient, kept as the
\* two integers Python divides
TC_mapping_coverage(mapped, ticket) ==
    IF ticket # <<>>
    THEN [num |-> Len(Items(mapped)), den |-> Len(Items(ticket))]
    ELSE [num |-> 0, den |-> 1]

\* the dict get_mapped_fields_summary builds from what map_ticket_fields returned
TC_fields_summary(mt, ticket) ==
    <<Assign("mapped_fields", KeyList(mt.mapped_fields)),
      Assign("unmapped_fields", KeyList(mt.unmapped_fields)),
      Assign("total_fields", Len(Items(ticket))),
      Assign("mapping_coverage", TC_mapping_coverage(mt.mapped_fields, ticket))>>

\* TicketConverter.get_mapped_fields_summary
TC_get_mapped_fields_summary(ticket, user_data, table) ==
    TC_fields_summary(FM_map_ticket_fields(ticket, user_data, table), ticket)

-----------------------------------------------------------------------------
(* FieldMapper construction *)

\* the table {}
EmptyTable == [ticket_fields |-> <<>>, parent_fields |-> <<>>]

\* FieldMapper._load_field_mapping: the table of the file when the file opens and
\* parses ("valid"), {} when open() raises FileNotFoundError ("missing") or
\* json.load() raises JSONDecodeError ("invalid")
FM_load_field_mapping(file_state, table) ==
    IF file_state = "valid" THEN table ELSE EmptyTable

\* FieldMapper._load_additional_info_fields
FM_load_additional_info_fields(table) ==
    IF HasKey(table.parent_fields, "conversation_fields")
    THEN Lookup(table.parent_fields, "conversation_fields").additional_overflow_fields
    ELSE <<>>

\* an entry of parent_fields
ParentEntry(jira_field, overflow_fields, additional_overflow_fields, m) ==
    [jira_field |-> jira_field, overflow_fields |-> overflow_fields,
     additional_overflow_fields |-> additional_overflow_fields, max_length |-> m]

\* an entry of ticket_fields
TicketEntry(jira_field, mapper_function, system_field, system_mapper_function) ==
    [jira_field |-> jira_field, mapper_function |-> mapper_function,
     system_field |-> system_field, system_mapper_function |-> system_mapper_function]

-----------------------------------------------------------------------------
(* The parts of the state a harness does not use *)

TicketIds == 1..MaxTickets

Workers == 1..MaxWorkers

NoOp == [name |-> "none", data_type |-> ""]

NoMapped == [mapped |-> <<>>, unmapped |-> <<>>, tracker |-> 0]

NoTicketData ==
    [ticket_details |-> <<>>, conversations |-> <<>>, ticket_attachments |-> <<>>,
     conversation_attachments |-> <<>>, user_data |-> NoUserData]

IdleWorker ==
    [pc |-> "idle", ticket_id |-> 0, ticket_data |-> NoTicketData,
     conv |-> NoMapped, att |-> NoMapped]

SplitIdle ==
    /\ data = <<>>
    /\ max_length = 0
    /\ num_overflow_fields = 0
    /\ chunks = <<>>
    /\ splitter = "none"

\* FieldMapper.__init__ on a mapping file in the given state
MapperBuilt(file_state, table) ==
    /\ mapping_file = file_state
    /\ field_mapping = FM_load_field_mapping(file_state, table)
    /\ overflow_tracker = 0
    /\ additional_info_fields =
           FM_load_additional_info_fields(FM_load_field_mapping(file_state, table))

\* a FieldMapper built on a missing mapping file
MapperUnconfigured == MapperBuilt("missing", EmptyTable)

\* FieldMapper.__init__ on a mapping file holding the given table
MapperConstructed(table) == MapperBuilt("valid", table)

CallIdle ==
    /\ mapped_fields = <<>>
    /\ op = NoOp

TicketIdle ==
    /\ in_ticket = <<>>
    /\ in_user_data = NoUserData
    /\ jira_issue = <<>>
    /\ raised = FALSE

RunIdle ==
    /\ pending = <<>>
    /\ ticket_status = [id \in TicketIds |-> "none"]
    /\ stats = [successful_migrations |-> 0, failed_migrations |-> 0]
    /\ history = <<>>

ParIdle ==
    /\ workers = [w \in Workers |-> IdleWorker]
    /\ cursor_reads = <<>>

NoCall == [name |-> "none", function_name |-> "", value |-> VNone, context |-> NoUserData, max_length |-> 0]

TransformIdle ==
    /\ mapper_call = NoCall
    /\ mapper_results = <<>>

AtomicIdle ==
    /\ jira_issues = {}
    /\ created_issues = {}
    /\ tracker_file = <<>>
    /\ tracker_lock = 0
    /\ pending_issues = {}
    /\ threads = <<>>

-----------------------------------------------------------------------------
(* Splitter harness: every splitter applied to blobs drawn from a bounded set *)

\* the building blocks of the blobs
PieceText(p) ==
    CASE p = "W"   -> Rep("w", 12)
      [] p = "L"   -> Rep("l", 25)
      [] p = "NL"  -> FM_text.NL
      [] p = "PAR" -> FM_text.NLNL
      [] p = "SEP" -> FM_text.Dashes
      [] p = "SP"  -> <<" ">>
      [] p = "SEC" -> <<"\n", "*", "*", "emdash">>

Pieces == {"W", "L", "NL", "PAR", "SEP", "SP", "SEC"}

RECURSIVE Concat(_)
Concat(ps) == IF ps = <<>> THEN <<>> ELSE PieceText(Head(ps)) \o Concat(Tail(ps))

\* three rendered conversations; the body of the second holds '---' inside a line
RenderedConversations ==
    FM_format_conversations_for_parent(
        <<[id |-> 1, user_id |-> 0, private |-> FALSE, body_text |-> <<"h", "e", "l", "l", "o">>, nulls |-> {}],
          [id |-> 2, user_id |-> 0, private |-> FALSE, body_text |-> <<"a", "-", "-", "-">> \o Rep("b", 20), nulls |-> {}],
          [id |-> 3, user_id |-> 0, private |-> FALSE, body_text |-> Rep("l", 25), nulls |-> {}]>>,
        NoUserData)

Blobs == {Concat(ps) : ps \in UNION {[1..k -> Pieces] : k \in 0..MaxPieces}} \cup {RenderedConversations}

\* max_length values: one below every continuation header, two above
MaxLengths == {20, 50, 60}

\* max_length values for the conversation splitter: for the rendered conversations,
\* between the end of the first record and the end of the second, and past the second
ConversationMaxLengths(blob) == IF blob = RenderedConversations THEN {170, 200, 230} ELSE MaxLengths

OverflowCounts == {0, 1, 2}

\* the lengths for which the while loop of TicketConverter's category splitters
\* makes progress on every pass (room for at least one character after the header)
TC_terminates(m) == m > Len(TC_text.ConversationsHdrPrefix) + 2 + Len(FM_text.HdrSuffix)

SplitInit ==
    /\ data \in Blobs
    /\ max_length = 0
    /\ num_overflow_fields = 0
    /\ chunks = <<>>
    /\ splitter = "none"
    /\ MapperUnconfigured
    /\ CallIdle
    /\ TicketIdle
    /\ RunIdle
    /\ ParIdle
    /\ TransformIdle
    /\ AtomicIdle

FM_SplitConversation ==
    /\ splitter = "none"
    /\ \E m \in ConversationMaxLengths(data), n \in OverflowCounts :
        /\ chunks' = FM_split_conversation_data(data, m, n)
        /\ max_length' = m
        /\ num_overflow_fields' = n
    /\ splitter' = "FM_conversation"
    /\ UNCHANGED <<atomicVars, transformVars, data, mapperVars, callVars, ticketVars, runVars, parVars>>

FM_SplitAttachment ==
    /\ splitter = "none"
    /\ \E m \in MaxLengths, n \in OverflowCounts :
        /\ chunks' = FM_split_attachment_data(data, m, n)
        /\ max_length' = m
        /\ num_overflow_fields' = n
    /\ splitter' = "FM_attachment"
    /\ UNCHANGED <<atomicVars, transformVars, data, mapperVars, callVars, ticketVars, runVars, parVars>>

FM_SplitGeneric ==
    /\ splitter = "none"
    /\ \E m \in MaxLengths, n \in OverflowCounts :
        /\ chunks' = FM_split_generic_data(data, m, n, "user_fields")
        /\ max_length' = m
        /\ num_overflow_fields' = n
    /\ splitter' = "FM_generic"
    /\ UNCHANGED <<atomicVars, transformVars, data, mapperVars, callVars, ticketVars, runVars, parVars>>

FM_SplitDescription ==
    /\ splitter = "none"
    /\ \E m \in MaxLengths, n \in OverflowCounts :
        /\ chunks' = FM_split_description_data(data, m, n)
        /\ max_length' = m
        /\ num_overflow_fields' = n
    /\ splitter' = "FM_description"
    /\ UNCHANGED <<atomicVars, transformVars, data, mapperVars, callVars, ticketVars, runVars, parVars>>

TC_SplitConversation ==
    /\ splitter = "none"
    /\ \E m \in MaxLengths :
        /\ TC_terminates(m)
        /\ chunks' = TC_split_conversation_data(data, m)
        /\ max_length' = m
    /\ num_overflow_fields' = 0
    /\ splitter' = "TC_conversation"
    /\ UNCHANGED <<atomicVars, transformVars, data, mapperVars, callVars, ticketVars, runVars, parVars>>

TC_SplitDescription ==
    /\ splitter = "none"
    /\ \E m \in MaxLengths, n \in OverflowCounts :
        /\ chunks' = TC_split_description_data(data, m, n)
        /\ max_length' = m
        /\ num_overflow_fields' = n
    /\ splitter' = "TC_description"
    /\ UNCHANGED <<atomicVars, transformVars, data, mapperVars, callVars, ticketVars, runVars, parVars>>

SplitNext ==
    \/ FM_SplitConversation
    \/ FM_SplitAttachment
    \/ FM_SplitGeneric
    \/ FM_SplitDescription
    \/ TC_SplitConversation
    \/ TC_SplitDescription

SpecSplit == SplitInit /\ [][SplitNext]_vars

\* the length of the continuation header the splitter put on chunk k (1-based)
HeaderLen(name, k) ==
    IF k = 1 THEN 0
    ELSE CASE name = "FM_conversation" -> Len(FM_continuation_header("conversation", k - 1))
           [] name = "FM_attachment"   -> Len(FM_continuation_header("attachment", k - 1))
           [] name = "FM_generic"      -> Len(FM_continuation_header("user_fields", k - 1))
           [] name = "FM_description"  -> Len(FM_continuation_header("description", k - 1))
           [] name = "TC_conversation" -> Len(TC_continuation_header("conversation", k))
           [] name = "TC_description"  -> Len(FM_continuation_header("description", k - 1))

\* the chunks with their continuation headers removed, joined in order
RECURSIVE Rejoin(_, _, _)
Rejoin(name, cs, k) ==
    IF k > Len(cs) THEN <<>>
    ELSE Suffix(cs[k], HeaderLen(name, k)) \o Rejoin(name, cs, k + 1)

\* C1: for every blob and every max_length, the chunks a splitter returns, with the
\* continuation header taken off every chunk after the first, concatenate to
\* exactly the blob it was given.
C1_RoundTrip ==
    splitter # "none" => Rejoin(splitter, chunks, 1) = data

-----------------------------------------------------------------------------
(* Allocator harness: one call of the overflow allocator of a FieldMapper built   *)
(* on a table with parent fields                                                  *)

ConversationOverflowFields == <<"customfield_10355", "customfield_10367">>

AttachmentOverflowFields == <<"customfield_10356", "customfield_10368">>

UserOverflowFields == <<"customfield_10369">>

\* a table whose parent fields share max_length m; the conversations and the
\* attachments have nd dedicated overflow fields, the pool has np fields
ParentTable(m, nd, np, ticket_entries) ==
    [ticket_fields |-> ticket_entries,
     parent_fields |->
        <<Assign("conversation_fields",
                 ParentEntry("customfield_10354", Prefix(ConversationOverflowFields, nd),
                             Prefix(TC_additional_info_fields, np), m)),
          Assign("attachment_fields",
                 ParentEntry("customfield_10353", Prefix(AttachmentOverflowFields, nd),
                             <<>>, m)),
          Assign("user_fields",
                 ParentEntry("customfield_10352", Prefix(UserOverflowFields, nd),
                             <<>>, m))>>]

AllocTables ==
    {ParentTable(m, nd, np, <<>>) : m \in MaxLengths, nd \in {0, 1}, np \in {0, 3}}

AllocPieces == {"L", "SEP", "PAR"}

AllocBlobs == {Concat(ps) : ps \in UNION {[1..k -> AllocPieces] : k \in 0..MaxAllocPieces}}

\* user records for the generic renderer
AllocDicts ==
    {<<Assign("name", VStr(name)), Assign("email", VStr(email))>> :
        name \in {Rep("n", 4), Rep("n", 40)}, email \in {Rep("e", 6), Rep("e", 60)}}

AllocInit ==
    /\ \E table \in AllocTables : MapperConstructed(table)
    /\ SplitIdle
    /\ CallIdle
    /\ TicketIdle
    /\ RunIdle
    /\ ParIdle
    /\ TransformIdle
    /\ AtomicIdle

\* FieldMapper._handle_data_overflow(data, data_type, parent_mapping, jira_field)
HandleDataOverflow ==
    /\ op = NoOp
    /\ \E data_type \in {"conversation_fields", "attachment_fields", "user_fields"},
          blob \in AllocBlobs :
        LET parent_mapping == Lookup(field_mapping.parent_fields, data_type)
            r == FM_handle_data_overflow(blob, data_type, parent_mapping,
                                         parent_mapping.jira_field, overflow_tracker,
                                         additional_info_fields)
        IN /\ mapped_fields' = r.assigns
           /\ overflow_tracker' = r.tracker
           /\ data' = blob
           /\ max_length' = ParentMaxLength(parent_mapping)
           /\ op' = [name |-> "_handle_data_overflow", data_type |-> data_type]
    /\ UNCHANGED <<atomicVars, transformVars, num_overflow_fields, chunks, splitter, mapping_file, field_mapping,
                   additional_info_fields, ticketVars, runVars, parVars>>

\* FieldMapper.handle_description_overflow(description, max_length)
HandleDescriptionOverflow ==
    /\ op = NoOp
    /\ \E blob \in AllocBlobs, m \in MaxLengths :
        /\ mapped_fields' = FM_handle_description_overflow(blob, m, additional_info_fields)
        /\ data' = blob
        /\ max_length' = m
        /\ op' = [name |-> "handle_description_overflow", data_type |-> "description"]
    /\ UNCHANGED <<atomicVars, transformVars, num_overflow_fields, chunks, splitter, mapperVars,
                   ticketVars, runVars, parVars>>

\* FieldMapper.map_hierarchical_fields(data, "user_fields"): the parent-field branch
\* for a category that is neither the conversations nor the attachments
MapHierarchicalFields ==
    /\ op = NoOp
    /\ \E d \in AllocDicts :
        LET r == FM_map_hierarchical_fields(d, "user_fields", NoUserData, field_mapping,
                                            overflow_tracker, additional_info_fields)
        IN /\ mapped_fields' = r.mapped
           /\ overflow_tracker' = r.tracker
           /\ data' = FM_format_data_for_parent_field(d)
           /\ max_length' = ParentMaxLength(Lookup(field_mapping.parent_fields,
                                                   "user_fields"))
           /\ op' = [name |-> "map_hierarchical_fields", data_type |-> "user_fields"]
    /\ UNCHANGED <<atomicVars, transformVars, num_overflow_fields, chunks, splitter, mapping_file, field_mapping,
                   additional_info_fields, ticketVars, runVars, parVars>>

AllocNext ==
    \/ HandleDataOverflow
    \/ HandleDescriptionOverflow
    \/ MapHierarchicalFields

SpecAlloc == AllocInit /\ [][AllocNext]_vars

\* C2: every text value the overflow allocator writes to a destination field has
\* length <= max_length, its continuation header included.
C2_EveryValueFits ==
    op # NoOp => \A j \in 1..Len(mapped_fields) : Len(mapped_fields[j].v) <= max_length

\* the splitter of the category, and the chunks the blob is cut into when n fields
\* are there to take the chunks after the first
SplitterOf(data_type) ==
    CASE data_type = "conversation_fields" -> "conversation"
      [] data_type = "attachment_fields" -> "attachment"
      [] data_type = "description" -> "description"
      [] OTHER -> data_type

ChunksNeeded(data_type, s, m, n) == FM_split(SplitterOf(data_type), s, m, n)

\* C3: when a conversation or attachment blob needs more chunks than the primary
\* field and its dedicated overflow fields hold, the remaining chunks go, in order,
\* to the fields of the pool, taken one at a time from the cursor (0 before the call).
C3_PoolTakesRemainingChunks ==
    (op.name = "_handle_data_overflow"
     /\ op.data_type \in {"conversation_fields", "attachment_fields"})
    => LET dedicated == 1 + Len(Lookup(field_mapping.parent_fields,
                                       op.data_type).overflow_fields)
           needed == ChunksNeeded(op.data_type, data, max_length,
                                  dedicated - 1 + Len(additional_info_fields))
       IN \A k \in 1..Min(Len(needed) - dedicated, Len(additional_info_fields)) :
              /\ HasKey(mapped_fields, additional_info_fields[k])
              /\ Lookup(mapped_fields, additional_info_fields[k]) = needed[dedicated + k]

TxtTruncated == <<"[", "T", "R", "U", "N", "C", "A", "T", "E", "D", "]">>

EndsWith(s, suffix) ==
    Len(s) >= Len(suffix) /\ SubSeq(s, Len(s) - Len(suffix) + 1, Len(s)) = suffix

\* the texts written, in the order of the fields, headers removed, joined
RECURSIVE WrittenContent(_, _, _)
WrittenContent(data_type, assigns, k) ==
    IF k > Len(assigns) THEN <<>>
    ELSE Suffix(assigns[k].v,
                IF k = 1 THEN 0
                ELSE Len(FM_continuation_header(SplitterOf(data_type), k - 1)))
         \o WrittenContent(data_type, assigns, k + 1)

\* C5: whenever the allocator stores less than the whole blob, the last field that
\* received content ends with the marker [TRUNCATED].
C5_ExhaustionIsMarked ==
    (op # NoOp /\ WrittenContent(op.data_type, mapped_fields, 1) # data)
    => EndsWith(mapped_fields[Len(mapped_fields)].v, TxtTruncated)

-----------------------------------------------------------------------------
(* Migration run: TicketMigrator.migrate_tickets(ticket_ids, dry_run=True) on one   *)
(* TicketMigrator, whose single FieldMapper every conversion uses                  *)

AgentEmail == <<"a", "@", "x", ".", "i", "o">>

ContactEmail == <<"c", "@", "y", ".", "i", "o">>

\* a directory with one agent (id 7) and one contact (id 8)
Directory ==
    [present |-> TRUE,
     agents |-> {[id |-> 7, has_contact |-> TRUE, email |-> AgentEmail]},
     contacts |-> {[id |-> 8, email |-> ContactEmail]}]

\* nulls: the keys of the conversation that carry null
Conversation(id, user_id, private, body_text) ==
    [id |-> id, user_id |-> user_id, private |-> private, body_text |-> body_text,
     nulls |-> {}]

Attachment(id, name, size, user_id, conversation_id) ==
    [id |-> id, name |-> name, size |-> size, user_id |-> user_id,
     conversation_id |-> conversation_id]

ShortConversation == Conversation(1, 7, FALSE, Rep("w", 5))

\* {"id": 5, "user_id": 7, "private": false, "to_emails": null, "body_text": "wwwww"}
NullEmailsConversation == [Conversation(5, 7, FALSE, Rep("w", 5)) EXCEPT !.nulls = {"to_emails"}]

\* {"id": 6, "user_id": 8, "private": false, "body_text": null}
NullBodyConversation == [Conversation(6, 8, FALSE, <<>>) EXCEPT !.nulls = {"body_text"}]

LongConversation == Conversation(2, 8, TRUE, Rep("l", 150))

FileName == <<"l", "o", "g", ".", "t", "x", "t">>

TicketAttachment == Attachment(1, FileName, 10, 7, 0)

ConversationAttachment(k) == Attachment(10 + k, FileName, 2048, 8, 2)

RunConversations ==
    {<<>>, <<ShortConversation>>, <<NullEmailsConversation>>,
     <<ShortConversation, NullBodyConversation>>,
     <<LongConversation, ShortConversation, [LongConversation EXCEPT !.id = 3],
       [LongConversation EXCEPT !.id = 4]>>}

RunAttachments ==
    {[ticket_attachments |-> <<>>, conversation_attachments |-> <<>>],
     [ticket_attachments |-> <<Attachment(5, FileName, 10, 7, 0), Attachment(3, FileName, 10, 8, 0)>>,
      conversation_attachments |-> <<>>],
     [ticket_attachments |-> <<>>,
      conversation_attachments |-> <<ConversationAttachment(2), ConversationAttachment(1)>>],
     [ticket_attachments |-> <<TicketAttachment>>,
      conversation_attachments |-> [k \in 1..12 |-> ConversationAttachment(k)]]}

\* ticket_details of ticket id: none on disk, a short ticket, a ticket with an empty
\* subject and a long description
RunTicketDetails(id) ==
    {<<>>,
     <<Assign("id", VInt(id)), Assign("subject", VStr(<<"H", "i">>)),
       Assign("priority", VInt(2))>>,
     <<Assign("id", VInt(id)), Assign("subject", VStr(<<>>)),
       Assign("description_text", VStr(Rep("d", 220)))>>}

\* what DataLoader.load_ticket_data(id) can return
RunTicketData(id) ==
    {[ticket_details |-> t, conversations |-> c,
      ticket_attachments |-> a.ticket_attachments,
      conversation_attachments |-> a.conversation_attachments,
      user_data |-> Directory] :
        t \in RunTicketDetails(id), c \in RunConversations, a \in RunAttachments}

\* max_length of the parent fields: below, at and above the default ceiling
RunMaxLengths == {60, NoMaxLength, 3 * FieldLimit}

\* a table that has a parent field for the conversations only
ConversationsOnlyTable ==
    [ticket_fields |-> <<>>,
     parent_fields |->
        <<Assign("conversation_fields",
                 ParentEntry("customfield_10354", ConversationOverflowFields, <<>>,
                             NoMaxLength))>>]

RunTables ==
    {EmptyTable, ConversationsOnlyTable}
    \cup {ParentTable(m, 1, 3, <<>>) : m \in RunMaxLengths}
    \cup {ParentTable(NoMaxLength, 1, 3,
                      <<Assign("priority", TicketEntry("summary", "", "", ""))>>)}

TicketIdLists == UNION {[1..k -> TicketIds] : k \in 1..MaxTickets}

RunInit ==
    /\ \/ \E table \in RunTables : MapperConstructed(table)
       \/ \E file_state \in {"missing", "invalid"} : MapperBuilt(file_state, EmptyTable)
    /\ pending \in TicketIdLists
    /\ ticket_status = [id \in TicketIds |-> "none"]
    /\ stats = [successful_migrations |-> 0, failed_migrations |-> 0]
    /\ history = <<>>
    /\ SplitIdle
    /\ CallIdle
    /\ TicketIdle
    /\ ParIdle
    /\ TransformIdle
    /\ AtomicIdle

\* tracker.update_ticket_status(ticket_id, "failed") and the failure count
Failed(ticket_id) ==
    /\ ticket_status' = [ticket_status EXCEPT ![ticket_id] = "failed"]
    /\ stats' = [stats EXCEPT !.failed_migrations = @ + 1]

\* tracker.update_ticket_status(ticket_id, "dry_run_completed") and the success count
DryRunCompleted(ticket_id) ==
    /\ ticket_status' = [ticket_status EXCEPT ![ticket_id] = "dry_run_completed"]
    /\ stats' = [stats EXCEPT !.successful_migrations = @ + 1]

\* the conversations of the ticket need more chunks than the primary field and the
\* dedicated overflow fields of the table hold, and the pool has fields
NeedsPool(ticket_data, table, pool) ==
    /\ pool # <<>>
    /\ ticket_data.conversations # <<>>
    /\ FM_is_parent_field_mapped(table, "conversation_fields")
    /\ LET parent_mapping == Lookup(table.parent_fields, "conversation_fields")
           blob == FM_format_conversations_for_parent(ticket_data.conversations,
                                                      ticket_data.user_data)
       IN Len(ChunksNeeded("conversation_fields", blob, ParentMaxLength(parent_mapping),
                           Len(parent_mapping.overflow_fields) + 1))
          > 1 + Len(parent_mapping.overflow_fields)

\* the entry of history for a convert_to_jira_issue call that starts now
ConvertStarted(ticket_data) ==
    [tracker_at_start |-> overflow_tracker,
     needed_pool |-> NeedsPool(ticket_data, field_mapping, additional_info_fields),
     ticket_data |-> ticket_data]

\* TicketMigrator.migrate_single_ticket(ticket_id, dry_run=True) for the next id of
\* the list, as _migrate_tickets_sequential calls it
MigrateSingleTicket ==
    /\ pending # <<>>
    /\ pending' = Tail(pending)
    /\ LET ticket_id == Head(pending)
       IN IF ticket_status[ticket_id] \in {"success", "dry_run_completed"}
          THEN UNCHANGED <<mapperVars, jira_issue, raised, ticket_status, stats, history>>
          ELSE \E ticket_data \in RunTicketData(ticket_id) :
                 IF ticket_data.ticket_details = <<>>
                 THEN /\ Failed(ticket_id)
                      /\ UNCHANGED <<mapperVars, jira_issue, raised, history>>
                 ELSE \E r \in {TC_convert_to_jira_issue(
                                      ticket_data.ticket_details, ticket_data.conversations,
                                      ticket_data.ticket_attachments,
                                      ticket_data.conversation_attachments,
                                      ticket_data.user_data, field_mapping,
                                      overflow_tracker, additional_info_fields)} :
                         /\ overflow_tracker' = r.tracker
                         /\ jira_issue' = IF r.raised THEN <<>>
                                          ELSE TC_set_issue_type(TC_set_project_key(r.writes))
                         /\ raised' = r.raised
                         /\ history' = Append(history, ConvertStarted(ticket_data))
                         /\ IF r.raised THEN Failed(ticket_id)
                                        ELSE DryRunCompleted(ticket_id)
                         /\ UNCHANGED <<mapping_file, field_mapping, additional_info_fields>>
    /\ UNCHANGED <<atomicVars, transformVars, splitVars, callVars, in_ticket, in_user_data, parVars>>

Next == MigrateSingleTicket

Spec == RunInit /\ [][Next]_vars

\* the fields of the shared additional-overflow pool
PoolFields ==
    {TC_additional_info_fields[k] : k \in 1..Len(TC_additional_info_fields)}
    \cup {additional_info_fields[k] : k \in 1..Len(additional_info_fields)}

\* C4: within one convert_to_jira_issue, every field of the shared pool receives at
\* most one chunk, whichever of the conversation overflow, the attachment overflow
\* and the description overflow writes it.
C4_PoolFieldWrittenOnce ==
    \A f \in PoolFields :
        Cardinality({j \in 1..Len(jira_issue) : jira_issue[j].f = f}) <= 1

LastTicketData == history[Len(history)].ticket_data

\* the positions of text at which a line starts
LineStarts(text) == {1} \cup {p + 1 : p \in {q \in 1..Len(text) : text[q] = "\n"}}

\* row is a whole line of text, starting at position p
LineAt(text, row, p) ==
    /\ p + Len(row) - 1 <= Len(text)
    /\ OccursAt(text, row, p - 1)
    /\ p + Len(row) > Len(text) \/ text[p + Len(row)] = "\n"

\* where row is first a line of text, 0 when it is not one
RowPosition(text, row, starts) ==
    IF \E p \in starts : LineAt(text, row, p)
    THEN CHOOSE p \in starts :
             LineAt(text, row, p) /\ \A q \in starts : LineAt(text, row, q) => p <= q
    ELSE 0

RowPositions(text, rows) == [k \in 1..Len(rows) |-> RowPosition(text, rows[k], LineStarts(text))]

\* the rows that are lines of text are lines of it in the order of rows
RowsInOrder(text, rows) ==
    \A pos \in {RowPositions(text, rows)} :
        \A i, j \in 1..Len(rows) : (i < j /\ pos[i] > 0 /\ pos[j] > 0) => pos[i] < pos[j]

\* the rows of the ticket attachments followed by those of the conversation
\* attachments, each list in the order it was supplied
AttachmentRows(ticket_data) ==
    [k \in 1..Len(ticket_data.ticket_attachments \o ticket_data.conversation_attachments) |->
        AttachmentLine((ticket_data.ticket_attachments \o ticket_data.conversation_attachments)[k],
                       ticket_data.user_data)]

\* the rows of the conversations in the order they were supplied
ConversationRows(ticket_data) ==
    [k \in 1..Len(ticket_data.conversations) |->
        ConversationLines(ticket_data.conversations[k], ticket_data.user_data)[1]]

\* C17: in every text of the record convert_to_jira_issue returned, the rows of the
\* ticket attachments come before the rows of the conversation attachments, the rows
\* of each list are in the order of the list, whichever of the lists are empty, and
\* the rows of the conversations are in the order of the conversations.
C17_RowsInInputOrder ==
    (history # <<>> /\ jira_issue # <<>>) =>
        \A j \in 1..Len(jira_issue) :
            jira_issue[j].v.t = "str" =>
                /\ RowsInOrder(jira_issue[j].v.s, AttachmentRows(LastTicketData))
                /\ RowsInOrder(jira_issue[j].v.s, ConversationRows(LastTicketData))

\* one text of the record lists a ticket attachment and a conversation attachment
C17_Witness ==
    /\ history # <<>>
    /\ LastTicketData.ticket_attachments # <<>>
    /\ LastTicketData.conversation_attachments # <<>>
    /\ \E j \in 1..Len(jira_issue) :
           /\ jira_issue[j].v.t = "str"
           /\ RowPosition(jira_issue[j].v.s,
                          AttachmentLine(LastTicketData.ticket_attachments[1], LastTicketData.user_data),
                          LineStarts(jira_issue[j].v.s)) > 0
           /\ RowPosition(jira_issue[j].v.s,
                          AttachmentLine(LastTicketData.conversation_attachments[1], LastTicketData.user_data),
                          LineStarts(jira_issue[j].v.s)) > 0

\* C15: convert_to_jira_issue raises for no optional data, absent, empty, or with
\* records that lack fields or carry null (a null email list, a null body text):
\* a conversion that raised did so on the summary of the ticket itself.
C15_OptionalDataNeverRaises ==
    (history # <<>> /\ raised) =>
        TC_summary_raises(LastTicketData.ticket_details, LastTicketData.user_data, field_mapping)

\* sub in text
Contains(text, sub) == \E p \in 0..(Len(text) - Len(sub)) : OccursAt(text, sub, p)

\* the parts of the converter that wrote, in the record returned, a value holding
\* the title line of a rendered blob
TitleWriters(title) ==
    {jira_issue[i].w : i \in {j \in 1..Len(jira_issue) :
        /\ \A l \in (j + 1)..Len(jira_issue) : jira_issue[l].f # jira_issue[j].f
        /\ jira_issue[j].v.t = "str"
        /\ Contains(jira_issue[j].v.s, title)}}

\* a category that has records is rendered by its own writer under a parent mapping,
\* by the writer of the description otherwise, and by nothing else
PlacedOnce(records, data_type, title, kind) ==
    records # <<>>
    => TitleWriters(title) = IF FM_is_parent_field_mapped(field_mapping, data_type)
                             THEN {kind} ELSE {"description"}

C13_UnreadableTableIsFatal ==
    mapping_file # "valid" => history = <<>>

-----------------------------------------------------------------------------
(* Parallel run: TicketMigrator._migrate_tickets_parallel(ticket_ids, dry_run=True).  *)
(* The ThreadPoolExecutor threads all run migrate_single_ticket on the one            *)
(* TicketConverter and the one FieldMapper that TicketMigrator.__init__ built; a      *)
(* thread can be preempted between any two calls it makes.                            *)

ParTicketDetails(id) ==
    {<<>>,
     <<Assign("id", VInt(id)), Assign("subject", VStr(<<"H", "i">>)),
       Assign("priority", VInt(2))>>}

ParConversations ==
    {<<>>, <<LongConversation, ShortConversation, LongConversation, LongConversation>>}

\* what DataLoader.load_ticket_data(id) can return
ParTicketData(id) ==
    {[ticket_details |-> t, conversations |-> c,
      ticket_attachments |-> a.ticket_attachments,
      conversation_attachments |-> a.conversation_attachments,
      user_data |-> Directory] :
        t \in ParTicketDetails(id), c \in ParConversations, a \in RunAttachments}

ParTables == {ParentTable(m, 1, 3, <<>>) : m \in {60, NoMaxLength}}

\* migrate_tickets takes the parallel path for a list of more than one ticket
ParTicketIdLists == UNION {[1..k -> TicketIds] : k \in 2..MaxTickets}

ParInit ==
    /\ \E table \in ParTables : MapperConstructed(table)
    /\ pending \in ParTicketIdLists
    /\ ticket_status = [id \in TicketIds |-> "none"]
    /\ stats = [successful_migrations |-> 0, failed_migrations |-> 0]
    /\ history = <<>>
    /\ SplitIdle
    /\ CallIdle
    /\ TicketIdle
    /\ ParIdle
    /\ TransformIdle
    /\ AtomicIdle

\* the cursor values that the calls of _get_next_additional_info_field made by worker
\* w read and handed a field out for, while the cursor went from before to after
CursorReads(w, before, after) ==
    [k \in 1..(after - before) |-> [worker |-> w, value |-> before + k - 1]]

\* a thread takes the next task: migrate_single_ticket up to the call of
\* convert_to_jira_issue (lines 316-335)
WorkerStart ==
    \E w \in Workers :
        /\ workers[w].pc = "idle"
        /\ pending # <<>>
        /\ pending' = Tail(pending)
        /\ LET ticket_id == Head(pending)
           IN IF ticket_status[ticket_id] \in {"success", "dry_run_completed"}
              THEN UNCHANGED <<workers, ticket_status, stats>>
              ELSE \E ticket_data \in ParTicketData(ticket_id) :
                     IF ticket_data.ticket_details = <<>>
                     THEN /\ Failed(ticket_id)
                          /\ UNCHANGED workers
                     ELSE /\ workers' = [workers EXCEPT ![w] =
                                 [IdleWorker EXCEPT !.pc = "loaded",
                                                    !.ticket_id = ticket_id,
                                                    !.ticket_data = ticket_data]]
                          /\ UNCHANGED <<ticket_status, stats>>
        /\ UNCHANGED <<atomicVars, transformVars, splitVars, mapperVars, callVars, ticketVars, history, cursor_reads>>

\* convert_to_jira_issue, lines 46-64: map_ticket_fields on the shared FieldMapper and
\* the summary fix-up
WorkerMapTicketFields ==
    \E w \in Workers :
        /\ workers[w].pc = "loaded"
        /\ history' = Append(history, ConvertStarted(workers[w].ticket_data))
        /\ IF TC_summary_raises(workers[w].ticket_data.ticket_details,
                                workers[w].ticket_data.user_data, field_mapping)
           THEN /\ Failed(workers[w].ticket_id)
                /\ workers' = [workers EXCEPT ![w] = IdleWorker]
                /\ raised' = TRUE
           ELSE /\ workers' = [workers EXCEPT ![w].pc = "ticket_mapped"]
                /\ UNCHANGED <<ticket_status, stats, raised>>
        /\ UNCHANGED <<atomicVars, transformVars, splitVars, mapperVars, callVars, in_ticket, in_user_data, jira_issue,
                       pending, cursor_reads>>

\* convert_to_jira_issue, lines 93-94: map_hierarchical_fields on the conversations
WorkerMapConversations ==
    \E w \in Workers :
        /\ workers[w].pc = "ticket_mapped"
        /\ \E conv \in {TC_map_conversations(workers[w].ticket_data.conversations,
                                             workers[w].ticket_data.user_data, field_mapping,
                                             overflow_tracker, additional_info_fields)} :
               /\ overflow_tracker' = conv.tracker
               /\ cursor_reads' = cursor_reads \o CursorReads(w, overflow_tracker, conv.tracker)
               /\ workers' = [workers EXCEPT ![w].pc = "conversations_mapped",
                                             ![w].conv = conv]
        /\ UNCHANGED <<atomicVars, transformVars, splitVars, mapping_file, field_mapping, additional_info_fields, callVars,
                       ticketVars, runVars>>

\* convert_to_jira_issue, lines 115-116: map_hierarchical_fields on the attachments
WorkerMapAttachments ==
    \E w \in Workers :
        /\ workers[w].pc = "conversations_mapped"
        /\ \E att \in {TC_map_attachments(
                           TC_all_attachments(workers[w].ticket_data.ticket_attachments,
                                              workers[w].ticket_data.conversation_attachments),
                           workers[w].ticket_data.user_data, field_mapping,
                           overflow_tracker, additional_info_fields)} :
               /\ overflow_tracker' = att.tracker
               /\ cursor_reads' = cursor_reads \o CursorReads(w, overflow_tracker, att.tracker)
               /\ workers' = [workers EXCEPT ![w].pc = "attachments_mapped",
                                             ![w].att = att]
        /\ UNCHANGED <<atomicVars, transformVars, splitVars, mapping_file, field_mapping, additional_info_fields, callVars,
                       ticketVars, runVars>>

\* the rest of convert_to_jira_issue, which the TicketConverter does on its own, and
\* the rest of migrate_single_ticket (lines 347-355)
WorkerFinish ==
    \E w \in Workers :
        /\ workers[w].pc = "attachments_mapped"
        /\ jira_issue' =
               TC_set_issue_type(TC_set_project_key(
                   TC_assemble(workers[w].ticket_data.ticket_details,
                               workers[w].ticket_data.conversations,
                               TC_all_attachments(
                                   workers[w].ticket_data.ticket_attachments,
                                   workers[w].ticket_data.conversation_attachments),
                               workers[w].ticket_data.user_data, field_mapping,
                               workers[w].conv, workers[w].att).writes))
        /\ raised' = FALSE
        /\ DryRunCompleted(workers[w].ticket_id)
        /\ workers' = [workers EXCEPT ![w] = IdleWorker]
        /\ UNCHANGED <<atomicVars, transformVars, splitVars, mapperVars, callVars, in_ticket, in_user_data,
                       pending, history, cursor_reads>>

ParNext ==
    \/ WorkerStart
    \/ WorkerMapTicketFields
    \/ WorkerMapConversations
    \/ WorkerMapAttachments
    \/ WorkerFinish

SpecPar == ParInit /\ [][ParNext]_vars

\* worker w has made a call on the shared FieldMapper for its ticket and has another
\* one to make
InFieldMapper(w) == workers[w].pc \in {"ticket_mapped", "conversations_mapped"}

\* C7: the conversions of a parallel run use the shared FieldMapper one at a time, no
\* two calls of _get_next_additional_info_field read the same cursor value, and the
\* cursor never exceeds the size of the pool.
C7_SharedMapperSerialized ==
    /\ Cardinality({w \in Workers : InFieldMapper(w)}) <= 1
    /\ \A j, k \in 1..Len(cursor_reads) :
           j # k => cursor_reads[j].value # cursor_reads[k].value
    /\ overflow_tracker <= Len(additional_info_fields)

-----------------------------------------------------------------------------
(* Ticket harness: one call of map_ticket_fields, or of convert_to_jira_issue, on a   *)
(* ticket without conversations or attachments and a FieldMapper built on a table     *)
(* with ticket fields                                                                  *)

\* the subject as the export holds it: null, empty, blank, short, padded, at the
\* ceiling of the summary, one above it, and well above it with padding
SubjectValues ==
    {VNone, VStr(<<>>), VStr(<<" ", " ">>), VStr(<<"H", "i">>),
     VStr(<<" ", "H", "i", "\n">>), VStr(Rep("s", SummaryLimit)),
     VStr(Rep("s", SummaryLimit + 1)),
     VStr(<<" ">> \o Rep("s", SummaryLimit + 45) \o <<" ">>)}

\* one more field of the ticket, with values that are falsy, null or plain
ExtraFields ==
    {Assign("priority", VInt(2)), Assign("priority", VInt(0)), Assign("priority", VNone),
     Assign("responder_id", VInt(7)), Assign("responder_id", VInt(9)),
     Assign("is_escalated", VBool(FALSE)), Assign("is_escalated", VBool(TRUE)),
     Assign("cf_note", VStr(<<>>)), Assign("cf_note", VStr(<<"0">>)),
     Assign("cf_note", VStr(<<" ">>))}

\* a value that carries markup
HtmlText == <<"<", "p", ">", "x", "<", "/", "p", ">">>

Tickets ==
    {id \o subject \o <<extra>> :
        id \in {<<>>, <<Assign("id", VInt(42))>>,
                <<Assign("id", VInt(42)), Assign("body", VStr(HtmlText)),
                  Assign("structured_description", VStr(HtmlText))>>},
        subject \in {<<>>} \cup {<<Assign("subject", v)>> : v \in SubjectValues},
        extra \in ExtraFields}

\* the transform names an entry can carry: none, an unknown one, a registered one
MapperNames == {"", "no_such_function"} \cup MAPPER_FUNCTIONS

\* the entries a table can hold for a ticket field
TicketFieldEntryChoices ==
    {TicketEntry(jira_field, mapper_function, sys[1], sys[2]) :
        jira_field \in {"customfield_10100", "summary"},
        mapper_function \in MapperNames,
        sys \in {<<"", "">>, <<"assignee", "map_user_to_system_field">>}}

\* the tables that map the given field, with or without an entry subject -> summary
TicketTables(field_name) ==
    {[ticket_fields |-> subject_entry \o <<Assign(field_name, entry)>>,
      parent_fields |-> <<>>] :
        subject_entry \in {<<>>, <<Assign("subject", TicketEntry("summary", "", "", ""))>>},
        entry \in TicketFieldEntryChoices}

TicketInit ==
    /\ in_ticket \in Tickets
    /\ in_user_data \in {NoUserData, Directory}
    /\ \E table \in TicketTables(in_ticket[Len(in_ticket)].f) : MapperConstructed(table)
    /\ mapped_fields = <<>>
    /\ op = NoOp
    /\ jira_issue = <<>>
    /\ raised = FALSE
    /\ SplitIdle
    /\ RunIdle
    /\ ParIdle
    /\ TransformIdle
    /\ AtomicIdle

\* FieldMapper.map_ticket_fields(ticket_data, user_data)
MapTicketFields ==
    /\ op = NoOp
    /\ mapped_fields' =
           FM_map_ticket_fields(in_ticket, in_user_data, field_mapping).mapped_fields
    /\ op' = [name |-> "map_ticket_fields", data_type |-> "ticket_fields"]
    /\ UNCHANGED <<atomicVars, transformVars, splitVars, mapperVars, ticketVars, runVars, parVars>>

\* TicketConverter.convert_to_jira_issue(ticket, user_data=user_data)
ConvertToJiraIssue ==
    /\ op = NoOp
    /\ \E r \in {TC_convert_to_jira_issue(in_ticket, <<>>, <<>>, <<>>, in_user_data,
                                          field_mapping, overflow_tracker,
                                          additional_info_fields)} :
           /\ jira_issue' = r.writes
           /\ raised' = r.raised
           /\ overflow_tracker' = r.tracker
    /\ op' = [name |-> "convert_to_jira_issue", data_type |-> "ticket_fields"]
    /\ UNCHANGED <<atomicVars, transformVars, splitVars, mapping_file, field_mapping, additional_info_fields, mapped_fields,
                   in_ticket, in_user_data, runVars, parVars>>

\* TicketConverter.get_mapped_fields_summary(ticket, user_data)
GetMappedFieldsSummary ==
    /\ op = NoOp
    /\ mapped_fields' = TC_get_mapped_fields_summary(in_ticket, in_user_data, field_mapping)
    /\ op' = [name |-> "get_mapped_fields_summary", data_type |-> "ticket_fields"]
    /\ UNCHANGED <<atomicVars, transformVars, splitVars, mapperVars, ticketVars, runVars, parVars>>

TicketNext ==
    \/ MapTicketFields
    \/ ConvertToJiraIssue
    \/ GetMappedFieldsSummary

SpecTicket == TicketInit /\ [][TicketNext]_vars

\* the ticket fields that have a mapping entry with a destination field and whose
\* source value is not None, as positions of the ticket
AdmissibleFields ==
    {j \in 1..Len(in_ticket) :
        /\ HasKey(field_mapping.ticket_fields, in_ticket[j].f)
        /\ Lookup(field_mapping.ticket_fields, in_ticket[j].f).jira_field # ""
        /\ in_ticket[j].v # VNone}

DestinationOf(j) == Lookup(field_mapping.ticket_fields, in_ticket[j].f).jira_field

TransformOf(j) == Lookup(field_mapping.ticket_fields, in_ticket[j].f).mapper_function

ReturnedSummary ==
    IF op.name = "map_ticket_fields"
    THEN Lookup(mapped_fields, "summary")
    ELSE Lookup(jira_issue, "summary")

TxtNoSubject42 ==
    <<"F", "r", "e", "s", "h", "d", "e", "s", "k", " ", "T", "i", "c", "k",
      "e", "t", " ", "#", "4", "2", ":", " ", "N", "o", " ", "S", "u", "b",
      "j", "e", "c", "t", " ", "P", "r", "o", "v", "i", "d", "e", "d">>

\* C9: the summary that map_ticket_fields or convert_to_jira_issue returns is a string
\* with a character that is not whitespace, and for an empty subject and id 42 it is
\* 'Freshdesk Ticket #42: No Subject Provided'.
C9_SummaryIsNeverEmpty ==
    (op.name \in {"map_ticket_fields", "convert_to_jira_issue"} /\ ~raised)
    => /\ ReturnedSummary.t = "str"
       /\ Strip(ReturnedSummary.s) # <<>>
       /\ (Get(in_ticket, "subject", VStr(<<>>)) = VStr(<<>>)
           /\ Get(in_ticket, "id", VNone) = VInt(42))
          => ReturnedSummary.s = TxtNoSubject42

\* C10: for a subject that is not empty, the summary that map_ticket_fields or
\* convert_to_jira_issue returns is the trimmed subject when that has at most 255
\* characters, and its first 252 characters followed by '...' otherwise.
C10_SummaryIsCappedSubject ==
    (op.name \in {"map_ticket_fields", "convert_to_jira_issue"} /\ ~raised
     /\ HasKey(in_ticket, "subject")
     /\ Lookup(in_ticket, "subject").t = "str"
     /\ Strip(Lookup(in_ticket, "subject").s) # <<>>)
    => LET trimmed == Strip(Lookup(in_ticket, "subject").s)
       IN /\ ReturnedSummary.t = "str"
          /\ Len(ReturnedSummary.s) <= 255
          /\ ReturnedSummary.s = IF Len(trimmed) > 255
                                 THEN SubSeq(trimmed, 1, 252) \o <<".", ".", ".">>
                                 ELSE trimmed

\* the mapping_coverage of the summary the last call returned
MappingCoverage == Lookup(mapped_fields, "mapping_coverage")

\* C11: the mapping_coverage that get_mapped_fields_summary returns lies in [0,1] and
\* is the number of mapped fields divided by the number of ticket fields, 0 for an
\* empty ticket.
C11_CoverageIsARatio ==
    op.name = "get_mapped_fields_summary"
    => /\ 0 <= MappingCoverage.num
       /\ MappingCoverage.num <= MappingCoverage.den
       /\ IF in_ticket = <<>>
          THEN MappingCoverage.num = 0
          ELSE MappingCoverage.num * Len(Items(in_ticket))
               = Len(Lookup(mapped_fields, "mapped_fields")) * MappingCoverage.den

-----------------------------------------------------------------------------
(* Transform Registry called directly: one call per behaviour, map_boolean
   possibly followed by a call on its own result *)

\* the longest text handed to truncate_text
MaxTextLen == 6

Alphabet == <<"a", "b", "c", "d", "e", "f", "g", "h">>

Texts == {SubSeq(Alphabet, 1, n) : n \in 0..MaxTextLen}

BooleanLikes ==
    {VBool(TRUE), VBool(FALSE), VInt(0), VInt(1), VNone, VStr(<<"1">>),
     VStr(<<"y", "e", "s">>), VStr(<<"Y", "E", "S">>), VStr(MF_text.TxtLowerTrue),
     VStr(MF_text.TxtLowerFalse), VStr(<<"o", "n">>), VStr(<<"n", "o">>)}

\* the timestamp of tests/test_setup.py and the text the test expects for it
IsoStamp == <<"2", "0", "2", "4", "-", "0", "1", "-", "1", "5", "T", "1", "0", ":", "3", "0", ":", "0", "0", "Z">>

DateOnly == <<"2", "0", "2", "4", "-", "0", "1", "-", "1", "5">>

DateTexts ==
    {<<"2", "0", "2", "4", "-", "0", "1", "-", "1", "5", "T", "1", "0", ":", "3", "0", ":", "0", "0", "Z">>,
     <<"2", "0", "2", "4", "-", "0", "1", "-", "1", "5">>,
     <<"2", "0", "2", "4", "-", "0", "1", "-", "1", "5", " ", "1", "0", ":", "3", "0">>,
     <<"2", "0", "2", "4", "-", "0", "2", "-", "2", "9", "T", "2", "3", ":", "5", "9", ":", "5", "9", "+", "0", "5", ":", "3", "0">>,
     <<"2", "0", "2", "3", "-", "0", "2", "-", "2", "9", "T", "1", "0", ":", "3", "0", ":", "0", "0", "Z">>,
     <<"2", "0", "2", "4", "-", "1", "3", "-", "0", "1", "T", "1", "0", ":", "3", "0", ":", "0", "0", "Z">>,
     <<"2", "0", "2", "4", "-", "0", "1", "-", "1", "5", "T", "2", "4", ":", "0", "0", ":", "0", "0", "Z">>,
     <<"2", "0", "2", "4", "-", "0", "1", "-", "1", "5", "T", "1", "0", ":", "3", "0", ":", "0", "0", "Z", "Z">>,
     <<"1", "5", "/", "0", "1", "/", "2", "0", "2", "4">>,
     <<"2", "0", "2", "4", "-", "0", "1", "-", "1", "5", "T", "1", "0", ":", "3", "0">>}

TransformValues ==
    {VStr(t) : t \in DateTexts} \cup BooleanLikes \cup {VStr(t) : t \in Texts} \cup {VInt(4), VInt(7), VInt(8), VDict(AgentEmail)}

TruncateLengths == {0, 1, 2, 3, 4, 5, FieldLimit}

RegistryNames == MAPPER_FUNCTIONS \cup {"", "no_such_function"}

\* a directory in which the ids 7 and 8 are both an agent and a contact; the agent
\* 8 carries no 'contact' object
OverlapDirectory ==
    [present |-> TRUE,
     agents |-> {[id |-> 7, has_contact |-> TRUE, email |-> AgentEmail],
                 [id |-> 8, has_contact |-> FALSE, email |-> <<>>]},
     contacts |-> {[id |-> 7, email |-> ContactEmail], [id |-> 8, email |-> ContactEmail]}]

TransformInit ==
    /\ mapper_call \in [name : {"none"}, function_name : {""}, value : TransformValues,
                         context : {NoUserData, Directory, OverlapDirectory},
                         max_length : TruncateLengths]
    /\ mapper_results = <<>>
    /\ MapperUnconfigured
    /\ SplitIdle
    /\ CallIdle
    /\ TicketIdle
    /\ RunIdle
    /\ ParIdle
    /\ AtomicIdle

Called(name, function_name) == [mapper_call EXCEPT !.name = name, !.function_name = function_name]

\* apply_mapper_function(function_name, value, context)
ApplyMapperFunction ==
    /\ mapper_results = <<>>
    /\ \E function_name \in RegistryNames :
           /\ mapper_results' = <<apply_mapper_function(function_name, mapper_call.value, mapper_call.context)>>
           /\ mapper_call' = Called("apply_mapper_function", function_name)
    /\ UNCHANGED <<atomicVars, splitVars, mapperVars, callVars, ticketVars, runVars, parVars>>

\* map_boolean(value), and map_boolean of what that call returned
MapBoolean ==
    /\ \/ mapper_results = <<>>
       \/ mapper_call.name = "map_boolean" /\ Len(mapper_results) = 1
    /\ mapper_results' = Append(mapper_results,
                                map_boolean(IF mapper_results = <<>> THEN mapper_call.value
                                            ELSE mapper_results[1]))
    /\ mapper_call' = Called("map_boolean", "")
    /\ UNCHANGED <<atomicVars, splitVars, mapperVars, callVars, ticketVars, runVars, parVars>>

\* truncate_text(text, max_length) on a text
TruncateText ==
    /\ mapper_results = <<>>
    /\ mapper_call.value.t = "str"
    /\ mapper_results' = <<truncate_text(mapper_call.value, mapper_call.max_length)>>
    /\ mapper_call' = Called("truncate_text", "")
    /\ UNCHANGED <<atomicVars, splitVars, mapperVars, callVars, ticketVars, runVars, parVars>>

\* format_date(date_string)
FormatDate ==
    /\ mapper_results = <<>>
    /\ mapper_results' = <<format_date(mapper_call.value)>>
    /\ mapper_call' = Called("format_date", "")
    /\ UNCHANGED <<atomicVars, splitVars, mapperVars, callVars, ticketVars, runVars, parVars>>

\* map_user_from_id(user_id, user_data)
MapUserFromId ==
    /\ mapper_results = <<>>
    /\ mapper_results' = <<map_user_from_id(mapper_call.value, mapper_call.context)>>
    /\ mapper_call' = Called("map_user_from_id", "")
    /\ UNCHANGED <<atomicVars, splitVars, mapperVars, callVars, ticketVars, runVars, parVars>>

\* FieldMapper._format_conversations_for_parent on one conversation of the user
FormatConversationsForParent ==
    /\ mapper_results = <<>>
    /\ mapper_call.value.t = "int"
    /\ mapper_results' = <<VStr(FM_format_conversations_for_parent(
                                    <<Conversation(1, mapper_call.value.i, FALSE, <<"h", "i">>)>>,
                                    mapper_call.context))>>
    /\ mapper_call' = Called("_format_conversations_for_parent", "")
    /\ UNCHANGED <<atomicVars, splitVars, mapperVars, callVars, ticketVars, runVars, parVars>>

TransformNext ==
    \/ ApplyMapperFunction
    \/ MapUserFromId
    \/ FormatConversationsForParent
    \/ FormatDate
    \/ MapBoolean
    \/ TruncateText

SpecMapper == TransformInit /\ [][TransformNext]_vars

\* C14: apply_mapper_function never lets an exception out: with an empty or an
\* unregistered function name it returns the value it was given, and when the call
\* of the registered transform raises it returns that value too.
C14_ApplyNeverAborts ==
    mapper_call.name = "apply_mapper_function" =>
        /\ mapper_results[1] # Raised
        /\ mapper_call.function_name \notin MAPPER_FUNCTIONS =>
               mapper_results[1] = mapper_call.value
        /\ (/\ mapper_call.function_name \in MAPPER_FUNCTIONS
            /\ ResolvedCall(mapper_call.function_name, mapper_call.value, mapper_call.context) = Raised)
               => mapper_results[1] = mapper_call.value

\* a registered transform raised inside apply_mapper_function
C14_Witness ==
    /\ mapper_call.name = "apply_mapper_function"
    /\ mapper_call.function_name \in MAPPER_FUNCTIONS
    /\ ResolvedCall(mapper_call.function_name, mapper_call.value, mapper_call.context) = Raised
    /\ mapper_results = <<mapper_call.value>>

BooleanTexts == {VStr(MF_text.TxtLowerTrue), VStr(MF_text.TxtLowerFalse)}

\* C18: map_boolean returns "true" or "false" for every value ("true" for True, "1"
\* and "yes"; "false" for 0, "false" and None), and map_boolean of its own result
\* is that result.
C18_MapBooleanTotalAndIdempotent ==
    mapper_call.name = "map_boolean" =>
        /\ \A k \in 1..Len(mapper_results) :
               mapper_results[k] \in BooleanTexts /\ mapper_results[k] = mapper_results[1]
        /\ mapper_call.value \in {VBool(TRUE), VStr(<<"1">>), VStr(<<"y", "e", "s">>)} =>
               mapper_results[1] = VStr(MF_text.TxtLowerTrue)
        /\ mapper_call.value \in {VInt(0), VStr(MF_text.TxtLowerFalse), VNone} =>
               mapper_results[1] = VStr(MF_text.TxtLowerFalse)

\* map_boolean was applied to "yes" and then to its own result
C18_Witness ==
    /\ mapper_call.name = "map_boolean"
    /\ mapper_call.value = VStr(<<"y", "e", "s">>)
    /\ mapper_results = <<VStr(MF_text.TxtLowerTrue), VStr(MF_text.TxtLowerTrue)>>

EndsWithEllipsis(text) == Len(text) >= 3 /\ Suffix(text, -3) = FM_text.TxtEllipsis

\* C19: for every text and every max_length the result of truncate_text is at most
\* max_length long; it is the text itself when the text fits, and it ends with
\* '...' otherwise.
C19_TruncateCapsLength ==
    mapper_call.name = "truncate_text" =>
        /\ Len(mapper_results[1].s) <= mapper_call.max_length
        /\ Len(mapper_call.value.s) <= mapper_call.max_length =>
               mapper_results[1] = mapper_call.value
        /\ Len(mapper_call.value.s) > mapper_call.max_length =>
               EndsWithEllipsis(mapper_results[1].s)

\* C20: format_date of the timestamp '2024-01-15T10:30:00Z' is the date-only text
\* '2024-01-15' that tests/test_setup.py expects, and a text that cannot be parsed
\* is returned as it is.
C20_FormatDateIsDateOnly ==
    mapper_call.name = "format_date" =>
        /\ mapper_call.value = VStr(IsoStamp) => mapper_results[1] = VStr(DateOnly)
        /\ (/\ mapper_call.value.t = "str"
            /\ mapper_call.value.s # <<>>
            /\ ~fromisoformat(ReplaceZ(mapper_call.value.s)).ok)
               => mapper_results[1] = mapper_call.value

\* the user id of the call is an agent with an email and a contact with another email
InBothNamespaces ==
    /\ mapper_call.context.present
    /\ mapper_call.value.t = "int"
    /\ HasEntry(mapper_call.context.agents, mapper_call.value.i)
    /\ HasEntry(mapper_call.context.contacts, mapper_call.value.i)
    /\ EntryOf(mapper_call.context.agents, mapper_call.value.i).has_contact
    /\ EntryOf(mapper_call.context.agents, mapper_call.value.i).email # <<>>
    /\ EntryOf(mapper_call.context.contacts, mapper_call.value.i).email # <<>>
    /\ EntryOf(mapper_call.context.contacts, mapper_call.value.i).email
           # EntryOf(mapper_call.context.agents, mapper_call.value.i).email

InColumn(text, email) == Contains(text, FM_text.Pipe \o email \o FM_text.Pipe)

\* C16: for a user id that is both an agent and a contact, with different emails,
\* map_user_from_id returns the agent's email, and the line that
\* _format_conversations_for_parent writes for a conversation of that user carries
\* the agent's email and not the contact's.
C16_AgentsTakePrecedence ==
    InBothNamespaces =>
        /\ mapper_call.name = "map_user_from_id" =>
               mapper_results[1] = VStr(EntryOf(mapper_call.context.agents, mapper_call.value.i).email)
        /\ mapper_call.name = "_format_conversations_for_parent" =>
               /\ InColumn(mapper_results[1].s, EntryOf(mapper_call.context.agents, mapper_call.value.i).email)
               /\ ~InColumn(mapper_results[1].s, EntryOf(mapper_call.context.contacts, mapper_call.value.i).email)

\* a conversation of user 7, agent and contact at once, was rendered
C16_Witness ==
    /\ InBothNamespaces
    /\ mapper_call.name = "_format_conversations_for_parent"
    /\ InColumn(mapper_results[1].s, AgentEmail)

\* the unmapped fields that the last map_ticket_fields returned beside mapped_fields
ReturnedUnmapped == FM_map_ticket_fields(in_ticket, in_user_data, field_mapping).unmapped_fields

\* C21: after map_ticket_fields every field of the ticket is in the unmapped fields
\* or, if the table maps it, has its destination field in the mapped fields, also
\* when the value the transform returned is None.
C21_NoFieldIsDropped ==
    op.name = "map_ticket_fields"
    => \A j \in 1..Len(in_ticket) :
           \/ HasKey(ReturnedUnmapped, in_ticket[j].f)
           \/ /\ FM_is_field_mapped(field_mapping, in_ticket[j].f)
              /\ HasKey(mapped_fields, DestinationOf(j))

\* the description of the record the last convert_to_jira_issue returned, "" without one
ReturnedDescription == Get(jira_issue, "description", VStr(<<>>)).s

\* the fields the metadata block has to leave out
HtmlBearingFields == {"description", "body", "structured_description"}

\* text has a line "field_name: ..."
HasMetadataLine(text, field_name) ==
    Contains(text, FM_text.NL \o NameText(field_name) \o <<":", " ">>)

\* C22: the description convert_to_jira_issue returns has no metadata line for
\* 'description', 'body' or 'structured_description', and it has the block
\* 'Freshdesk Ticket Metadata' only if an unmapped field outside those three has a
\* value that is not empty.
C22_MetadataExcludesHtmlFields ==
    (op.name = "convert_to_jira_issue" /\ ~raised)
    => /\ \A field_name \in HtmlBearingFields : ~HasMetadataLine(ReturnedDescription, field_name)
       /\ Contains(ReturnedDescription, TC_text.MetaTitle)
          => \E j \in 1..Len(ReturnedUnmapped) :
                 /\ ReturnedUnmapped[j].f \notin HtmlBearingFields
                 /\ ReturnedUnmapped[j].v.t # "none"
                 /\ ReturnedUnmapped[j].v # VStr(<<>>)

\* a line '---' of text ends at position e
SeparatorLineEndsAt(text, e) ==
    /\ e >= 4 /\ e <= Len(text)
    /\ SubSeq(text, e - 3, e) = FM_text.NL \o FM_text.Dashes
    /\ e = Len(text) \/ text[e + 1] = "\n"

\* C23: when _split_conversation_data cuts a blob in which a separator line '---'
\* ends within max_length, the first chunk ends right after a separator line, also
\* when a body text holds '---' inside a line.
C23_CutsAfterSeparatorLine ==
    (splitter = "FM_conversation" /\ Len(data) > max_length
     /\ \E e \in 1..max_length : SeparatorLineEndsAt(data, e))
    => SeparatorLineEndsAt(data, Len(chunks[1]))

\* the fields of the ticket that hold the id of a user of the directory and whose
\* entry resolves it with map_user_from_id for the custom field and with
\* map_user_to_system_field for the system field
ResolvedTwice ==
    {j \in AdmissibleFields :
        /\ in_user_data.present
        /\ in_ticket[j].v.t = "int"
        /\ HasEntry(in_user_data.agents, in_ticket[j].v.i)
        /\ TransformOf(j) = "map_user_from_id"
        /\ DestinationOf(j) # "summary"
        /\ Lookup(field_mapping.ticket_fields, in_ticket[j].f).system_field = "assignee"
        /\ Lookup(field_mapping.ticket_fields, in_ticket[j].f).system_mapper_function
               = "map_user_to_system_field"}

\* C24: the directory given to map_ticket_fields reaches both identity transforms:
\* the id of a user of the directory resolves to the email of the user in the
\* custom field and to {"name": email} in the system field.
C24_ContextReachesBothResolvers ==
    op.name = "map_ticket_fields"
    => \A j \in ResolvedTwice :
           /\ Get(mapped_fields, DestinationOf(j), VNone)
                  = VStr(EntryOf(in_user_data.agents, in_ticket[j].v.i).email)
           /\ Get(mapped_fields, "assignee", VNone)
                  = VDict(EntryOf(in_user_data.agents, in_ticket[j].v.i).email)

\* what map_user_from_id returns for the user of the conversation that was rendered
TransformEmail == map_user_from_id(mapper_call.value, mapper_call.context)

\* C25: the line _format_conversations_for_parent writes for a conversation carries
\* the email map_user_from_id returns for its user, for every directory and user id,
\* and 'NA' where map_user_from_id returns 'Unknown'; so for a user whose agent
\* record has no email and whose contact record has one.
C25_ResolversAgree ==
    mapper_call.name = "_format_conversations_for_parent"
    => InColumn(mapper_results[1].s,
                IF TransformEmail = VStr(FM_text.TxtUnknown) THEN FM_text.TxtNA
                ELSE TransformEmail.s)

-----------------------------------------------------------------------------
(* Reload harness: one FieldMapper whose mapping file changes between reloads *)

\* the tables the mapping file can hold: pools of 0, 1, 2 and 3 fields
ReloadTables ==
    AllocTables \cup {ParentTable(NoMaxLength, 1, np, <<>>) : np \in {1, 2}} \cup {EmptyTable}

ReloadInit ==
    /\ \/ \E table \in ReloadTables : MapperConstructed(table)
       \/ \E file_state \in {"missing", "invalid"} : MapperBuilt(file_state, EmptyTable)
    /\ SplitIdle
    /\ CallIdle
    /\ TicketIdle
    /\ RunIdle
    /\ ParIdle
    /\ TransformIdle
    /\ AtomicIdle

\* FieldMapper.reload_mapping() on whatever the mapping file holds now
ReloadMapping ==
    /\ \E file_state \in {"valid", "missing", "invalid"}, table \in ReloadTables :
           /\ mapping_file' = file_state
           /\ field_mapping' = FM_load_field_mapping(file_state, table)
    /\ UNCHANGED <<overflow_tracker, additional_info_fields>>
    /\ UNCHANGED <<atomicVars, transformVars, splitVars, callVars, ticketVars, runVars, parVars>>

\* FieldMapper._get_next_additional_info_field()
GetNextAdditionalInfoField ==
    /\ overflow_tracker' =
           FM_get_next_additional_info_field(overflow_tracker, additional_info_fields).tracker
    /\ UNCHANGED <<mapping_file, field_mapping, additional_info_fields>>
    /\ UNCHANGED <<atomicVars, transformVars, splitVars, callVars, ticketVars, runVars, parVars>>

ReloadNext ==
    \/ ReloadMapping
    \/ GetNextAdditionalInfoField

SpecReload == ReloadInit /\ [][ReloadNext]_vars

\* C26: at every moment the pool of the FieldMapper is the
\* additional_overflow_fields of the conversation_fields of the table it holds, the
\* table is {} exactly when the file could not be read, and the cursor is not past
\* the end of the pool.
C26_PoolFollowsTheTable ==
    /\ mapping_file # "valid" => field_mapping = EmptyTable
    /\ additional_info_fields = FM_load_additional_info_fields(field_mapping)
    /\ overflow_tracker <= Len(additional_info_fields)

-----------------------------------------------------------------------------
(* Live migration harness: worker threads that run migrate_single_ticket with
   dry_run=False, each on a ticket of its own, against one JIRA project, one
   tracker file and one pending_issues dict; main cleans up when they are done *)

\* max_retries of _create_jira_issue_atomic
max_retries == 3

\* the statuses migrate_single_ticket skips
ProcessedStatuses == {"success", "dry_run_completed"}

MainThread == 0

LiveWorkers == {1, 2}

\* the worker w migrates the ticket w
LiveTickets == LiveWorkers

\* the key of the issue the previous run created for a ticket, and the key
\* jira.create_issue hands out in an attempt of this run: all distinct
PreviousKey(ticket_id) == 10 * ticket_id

IssueKey(ticket_id, attempt) == 10 * ticket_id + attempt + 1

\* None, for a row and for a key
NoRow == [ticket_id |-> 0, jira_status |-> "", jira_id |-> 0]

NoIssue == 0

\* MigrationTracker.get_ticket_status and _get_ticket_status_internal: the first row
\* of the file with the ticket id, None when there is none
get_ticket_status(file, ticket_id) ==
    IF \E k \in 1..Len(file) : file[k].ticket_id = ticket_id
    THEN file[CHOOSE k \in 1..Len(file) :
                 /\ file[k].ticket_id = ticket_id
                 /\ \A j \in 1..(k - 1) : file[j].ticket_id # ticket_id]
    ELSE NoRow

\* MigrationTracker._add_new_record: one row appended to the file
add_new_record(file, ticket_id, jira_status, jira_id) ==
    Append(file, [ticket_id |-> ticket_id, jira_status |-> jira_status, jira_id |-> jira_id])

\* the rows _update_existing_record writes back: the first row of the ticket with
\* the new status, and the new jira_id when one is given
UpdatedRows(rows, ticket_id, jira_status, jira_id) ==
    [k \in 1..Len(rows) |->
        IF /\ rows[k].ticket_id = ticket_id
           /\ \A j \in 1..(k - 1) : rows[j].ticket_id # ticket_id
        THEN [rows[k] EXCEPT !.jira_status = jira_status,
                             !.jira_id = IF jira_id # NoIssue THEN jira_id ELSE @]
        ELSE rows[k]]

\* the keyword parameters of MigrationTracker.update_ticket_status
update_ticket_status_keywords == {"jira_id", "reason"}

\* the keywords of the two calls _create_jira_issue_atomic makes
SuccessKeywords ==
    {"jira_id", "total_attachments", "successful_attachments", "failed_attachments",
     "attachment_type"}

FailedKeywords == {"reason"}

\* a call with a keyword the function does not have raises TypeError before the
\* body of the function, and its try, is entered
RaisesTypeError(keywords) == ~(keywords \subseteq update_ticket_status_keywords)

\* the positional parameters of DataLoader.get_attachment_file_path after self,
\* and the arguments _upload_attachments calls it with
get_attachment_file_path_parameters == <<"ticket_id", "filename">>

UploadArguments == <<"ticket_id", "filename", "attachment_id">>

\* _upload_attachments(issue_key, ticket_data): what it can do. It calls
\* get_attachment_file_path for the first attachment of the ticket, which raises
\* TypeError when given more arguments than it takes; otherwise the uploader
\* decides how many of the files fail
upload_attachments(ticket_data) ==
    IF ticket_data.ticket_attachments + ticket_data.conversation_attachments = 0
    THEN {[raised |-> FALSE, failed |-> 0]}
    ELSE IF Len(UploadArguments) > Len(get_attachment_file_path_parameters)
         THEN {[raised |-> TRUE, failed |-> 0]}
         ELSE {[raised |-> FALSE, failed |-> n] :
                  n \in 0..(ticket_data.ticket_attachments
                            + ticket_data.conversation_attachments)}

\* _cleanup_orphaned_issue(issue_key, ticket_id): the issues JIRA can hold afterwards.
\* An issue that is not there is skipped; jira.delete_issue deletes it or raises, and
\* the exception is caught and logged
cleanup_orphaned_issue(issues, issue_key) ==
    IF issue_key \in issues THEN {issues \ {issue_key}, issues} ELSE {issues}

\* _mark_issue_for_cleanup: pending_issues[ticket_id] = issue_key
mark_issue_for_cleanup(marks, ticket_id, issue_key) ==
    {m \in marks : m[1] # ticket_id} \cup {<<ticket_id, issue_key>>}

\* the mutation of _remove_cleanup_mark that leaves the dict alone
remove_cleanup_mark_never(marks, ticket_id) == marks

\* _remove_cleanup_mark: pending_issues.pop(ticket_id, None)
remove_cleanup_mark(marks, ticket_id) == {m \in marks : m[1] # ticket_id}

LiveTicketData ==
    {[ticket_attachments |-> 0, conversation_attachments |-> 0],
     [ticket_attachments |-> 1, conversation_attachments |-> 0],
     [ticket_attachments |-> 0, conversation_attachments |-> 1]}

\* what the previous run can have left in the tracker for a ticket
PreviousRows(ticket_id) ==
    {<<>>,
     <<[ticket_id |-> ticket_id, jira_status |-> "failed", jira_id |-> NoIssue]>>,
     <<[ticket_id |-> ticket_id, jira_status |-> "dry_run_completed", jira_id |-> NoIssue]>>,
     <<[ticket_id |-> ticket_id, jira_status |-> "success",
        jira_id |-> PreviousKey(ticket_id)]>>}

PreviousFiles == {r1 \o r2 : r1 \in PreviousRows(1), r2 \in PreviousRows(2)}

NoUpdate == [jira_status |-> "", jira_id |-> NoIssue]

\* what a thread is doing: where it is (pc), its ticket and the attachments the
\* ticket has, the row the tracker held for the ticket when the thread started, the
\* locals attempt and created_issue of _create_jira_issue_atomic, the attempts
\* whose issue was created and whose uploads all succeeded, the arguments of the
\* update_ticket_status call under way, the rows _update_existing_record holds,
\* and what the thread returned

StartedThread(ticket_id, ticket_data, file) ==
    [pc |-> "start", ticket_id |-> ticket_id, ticket_data |-> ticket_data,
     row_at_start |-> get_ticket_status(file, ticket_id), attempt |-> 0,
     created_issue |-> NoIssue, uploaded |-> {}, update |-> NoUpdate, rows |-> <<>>,
     result |-> "none"]

MainStarted ==
    [pc |-> "migrating", ticket_id |-> 0, ticket_data |-> CHOOSE d \in LiveTicketData : TRUE,
     row_at_start |-> NoRow, attempt |-> 0, created_issue |-> NoIssue, uploaded |-> {},
     update |-> NoUpdate, rows |-> <<>>, result |-> "none"]

LiveInit ==
    /\ tracker_file \in PreviousFiles
    /\ jira_issues = {tracker_file[k].jira_id : k \in 1..Len(tracker_file)} \ {NoIssue}
    /\ created_issues = {}
    /\ tracker_lock = 0
    /\ pending_issues = {}
    /\ \E d1 \in LiveTicketData, d2 \in LiveTicketData :
           threads = [w \in LiveWorkers \cup {MainThread} |->
                         IF w = MainThread THEN MainStarted
                         ELSE StartedThread(w, IF w = 1 THEN d1 ELSE d2, tracker_file)]
    /\ MapperUnconfigured
    /\ SplitIdle
    /\ CallIdle
    /\ TicketIdle
    /\ RunIdle
    /\ ParIdle
    /\ TransformIdle

\* migrate_single_ticket, its first lines: the tracker is read without its lock, and
\* a ticket that is already processed is skipped
GetTicketStatus(w) ==
    /\ threads[w].pc = "start"
    /\ \E existing_status \in {get_ticket_status(tracker_file, threads[w].ticket_id)} :
           threads' = [threads EXCEPT ![w] =
               IF /\ existing_status # NoRow
                  /\ existing_status.jira_status \in ProcessedStatuses
               THEN [@ EXCEPT !.pc = "returned", !.result = "True"]
               ELSE [@ EXCEPT !.pc = "create"]]
    /\ UNCHANGED <<jira_issues, created_issues, tracker_file, tracker_lock, pending_issues>>
    /\ UNCHANGED <<transformVars, splitVars, mapperVars, callVars, ticketVars, runVars, parVars>>

\* _create_jira_issue_single_attempt: jira.create_issue returns a new issue, or the
\* attempt raises
CreateJiraIssueSingleAttempt(w) ==
    /\ threads[w].pc = "create"
    /\ \/ /\ \E key \in {IssueKey(threads[w].ticket_id, threads[w].attempt)} :
                /\ jira_issues' = jira_issues \cup {key}
                /\ created_issues' = created_issues \cup {key}
                /\ threads' = [threads EXCEPT ![w].pc = "mark", ![w].created_issue = key]
       \/ /\ threads' = [threads EXCEPT ![w].pc = "except"]
          /\ UNCHANGED <<jira_issues, created_issues>>
    /\ UNCHANGED <<tracker_file, tracker_lock, pending_issues>>
    /\ UNCHANGED <<transformVars, splitVars, mapperVars, callVars, ticketVars, runVars, parVars>>

\* _mark_issue_for_cleanup(ticket_id, created_issue.key)
MarkIssueForCleanup(w) ==
    /\ threads[w].pc = "mark"
    /\ pending_issues' = mark_issue_for_cleanup(pending_issues, threads[w].ticket_id,
                                                threads[w].created_issue)
    /\ threads' = [threads EXCEPT ![w].pc = "upload"]
    /\ UNCHANGED <<jira_issues, created_issues, tracker_file, tracker_lock>>
    /\ UNCHANGED <<transformVars, splitVars, mapperVars, callVars, ticketVars, runVars, parVars>>

\* the handlers inside the attempt: the issue is cleaned up, its mark removed and
\* the exception raised again
CleanUpAndRaise(w) ==
    /\ jira_issues' \in cleanup_orphaned_issue(jira_issues, threads[w].created_issue)
    /\ pending_issues' = remove_cleanup_mark(pending_issues, threads[w].ticket_id)
    /\ threads' = [threads EXCEPT ![w].pc = "except"]

\* _upload_attachments and the check of attachment_stats['failed']
UploadAttachments(w) ==
    /\ threads[w].pc = "upload"
    /\ \E attachment_stats \in upload_attachments(threads[w].ticket_data) :
           IF attachment_stats.raised \/ attachment_stats.failed > 0
           THEN CleanUpAndRaise(w)
           ELSE /\ threads' = [threads EXCEPT ![w].pc = "tracker",
                                               ![w].uploaded = @ \cup {threads[w].attempt}]
                /\ UNCHANGED <<jira_issues, pending_issues>>
    /\ UNCHANGED <<created_issues, tracker_file, tracker_lock>>
    /\ UNCHANGED <<transformVars, splitVars, mapperVars, callVars, ticketVars, runVars, parVars>>

\* the call tracker.update_ticket_status(ticket_id, "success", jira_id=..., ...)
UpdateTrackerSuccess(w) ==
    /\ threads[w].pc = "tracker"
    /\ IF RaisesTypeError(SuccessKeywords)
       THEN CleanUpAndRaise(w)
       ELSE /\ threads' = [threads EXCEPT ![w].pc = "update",
                              ![w].update = [jira_status |-> "success",
                                             jira_id |-> threads[w].created_issue]]
            /\ UNCHANGED <<jira_issues, pending_issues>>
    /\ UNCHANGED <<created_issues, tracker_file, tracker_lock>>
    /\ UNCHANGED <<transformVars, splitVars, mapperVars, callVars, ticketVars, runVars, parVars>>

\* the handler of the attempt: an issue that is still held is cleaned up; then the
\* next attempt, or after the last one the call
\* tracker.update_ticket_status(ticket_id, "failed", reason=...)
HandleFailedAttempt(w) ==
    /\ threads[w].pc = "except"
    /\ IF threads[w].created_issue # NoIssue
       THEN jira_issues' \in cleanup_orphaned_issue(jira_issues, threads[w].created_issue)
       ELSE UNCHANGED jira_issues
    /\ IF threads[w].attempt < max_retries - 1
       THEN threads' = [threads EXCEPT ![w].pc = "create", ![w].created_issue = NoIssue,
                                       ![w].attempt = @ + 1]
       ELSE threads' = [threads EXCEPT ![w].created_issue = NoIssue,
                           ![w].pc = IF RaisesTypeError(FailedKeywords)
                                     THEN "raised" ELSE "update",
                           ![w].update = [jira_status |-> "failed", jira_id |-> NoIssue]]
    /\ UNCHANGED <<created_issues, tracker_file, tracker_lock, pending_issues>>
    /\ UNCHANGED <<transformVars, splitVars, mapperVars, callVars, ticketVars, runVars, parVars>>

\* what _create_jira_issue_atomic does once update_ticket_status is back: after
\* "success" the mark is removed, the success counted and True returned; after
\* "failed" the failure is counted and False returned
AfterUpdate(w) ==
    IF threads[w].update.jira_status = "success"
    THEN /\ pending_issues' = remove_cleanup_mark(pending_issues, threads[w].ticket_id)
         /\ stats' = [stats EXCEPT !.successful_migrations = @ + 1]
         /\ threads' = [threads EXCEPT ![w].pc = "returned", ![w].result = "True"]
    ELSE /\ stats' = [stats EXCEPT !.failed_migrations = @ + 1]
         /\ threads' = [threads EXCEPT ![w].pc = "returned", ![w].result = "False"]
         /\ UNCHANGED pending_issues

\* MigrationTracker.update_ticket_status: the lock is taken and the file read; a
\* new row is appended, and for a row that exists _update_existing_record has read
\* the rows and is about to write them back
UpdateTicketStatus(w) ==
    /\ threads[w].pc = "update"
    /\ tracker_lock = 0
    /\ IF get_ticket_status(tracker_file, threads[w].ticket_id) = NoRow
       THEN /\ tracker_file' = add_new_record(tracker_file, threads[w].ticket_id,
                                              threads[w].update.jira_status,
                                              threads[w].update.jira_id)
            /\ UNCHANGED tracker_lock
            /\ AfterUpdate(w)
       ELSE /\ tracker_lock' = w
            /\ threads' = [threads EXCEPT ![w].pc = "open",
                              ![w].rows = UpdatedRows(tracker_file, threads[w].ticket_id,
                                                      threads[w].update.jira_status,
                                                      threads[w].update.jira_id)]
            /\ UNCHANGED <<tracker_file, pending_issues, stats>>
    /\ UNCHANGED <<jira_issues, created_issues>>
    /\ UNCHANGED <<transformVars, splitVars, mapperVars, callVars, ticketVars, pending, ticket_status, history, parVars>>

\* _update_existing_record: open(self.tracker_file, 'w') empties the file
OpenTrackerFileForWriting(w) ==
    /\ threads[w].pc = "open"
    /\ tracker_file' = <<>>
    /\ threads' = [threads EXCEPT ![w].pc = "write"]
    /\ UNCHANGED <<jira_issues, created_issues, tracker_lock, pending_issues>>
    /\ UNCHANGED <<transformVars, splitVars, mapperVars, callVars, ticketVars, runVars, parVars>>

\* _update_existing_record: the rows are written, the file closed, and
\* update_ticket_status gives the lock back
WriteTrackerRows(w) ==
    /\ threads[w].pc = "write"
    /\ tracker_file' = threads[w].rows
    /\ tracker_lock' = 0
    /\ AfterUpdate(w)
    /\ UNCHANGED <<jira_issues, created_issues>>
    /\ UNCHANGED <<transformVars, splitVars, mapperVars, callVars, ticketVars, pending, ticket_status, history, parVars>>

\* main, after migrate_tickets: _cleanup_pending_issues() empties pending_issues and
\* cleans up every issue that was in it
CleanupPendingIssues ==
    /\ threads[MainThread].pc = "migrating"
    /\ \A w \in LiveWorkers : threads[w].pc \in {"returned", "raised"}
    /\ pending_issues' = {}
    /\ \E kept \in SUBSET ({m[2] : m \in pending_issues} \cap jira_issues) :
           jira_issues' = (jira_issues \ {m[2] : m \in pending_issues}) \cup kept
    /\ threads' = [threads EXCEPT ![MainThread].pc = "cleaned"]
    /\ UNCHANGED <<created_issues, tracker_file, tracker_lock>>
    /\ UNCHANGED <<transformVars, splitVars, mapperVars, callVars, ticketVars, runVars, parVars>>

LiveNext ==
    \/ \E w \in LiveWorkers : GetTicketStatus(w)
    \/ \E w \in LiveWorkers : CreateJiraIssueSingleAttempt(w)
    \/ \E w \in LiveWorkers : MarkIssueForCleanup(w)
    \/ \E w \in LiveWorkers : UploadAttachments(w)
    \/ \E w \in LiveWorkers : UpdateTrackerSuccess(w)
    \/ \E w \in LiveWorkers : HandleFailedAttempt(w)
    \/ \E w \in LiveWorkers : UpdateTicketStatus(w)
    \/ \E w \in LiveWorkers : OpenTrackerFileForWriting(w)
    \/ \E w \in LiveWorkers : WriteTrackerRows(w)
    \/ CleanupPendingIssues

SpecLive == LiveInit /\ [][LiveNext]_vars

\* the issues the _create_jira_issue_atomic call of a thread created
CreatedBy(w) == {key \in created_issues : key \div 10 = threads[w].ticket_id}

\* the thread w takes the step in which its _create_jira_issue_atomic returns
AtomicReturns(w, value) ==
    /\ threads[w].pc \in {"update", "write"}
    /\ threads'[w].pc = "returned"
    /\ threads'[w].result = value

\* the number of _create_jira_issue_atomic calls that returned False
ReturnedFalse(all) == Cardinality({w \in LiveWorkers : all[w].result = "False"})

\* C27: _create_jira_issue_atomic is all-or-nothing. At the step in which it returns
\* True, exactly one of the issues it created exists and the tracker row of the
\* ticket is 'success' with the key of that issue; at the step in which it returns
\* False, none of the issues it created exists, the tracker row of the ticket is
\* 'failed', and failed_migrations counts the call once.
C27_AllOrNothing ==
    [][\A w \in LiveWorkers :
          /\ AtomicReturns(w, "True") =>
                /\ Cardinality(CreatedBy(w) \cap jira_issues') = 1
                /\ get_ticket_status(tracker_file', threads[w].ticket_id).jira_status
                       = "success"
                /\ get_ticket_status(tracker_file', threads[w].ticket_id).jira_id
                       \in CreatedBy(w) \cap jira_issues'
          /\ AtomicReturns(w, "False") =>
                /\ CreatedBy(w) \cap jira_issues' = {}
                /\ get_ticket_status(tracker_file', threads[w].ticket_id).jira_status
                       = "failed"
                /\ stats'.failed_migrations = stats.failed_migrations + 1
                /\ stats'.failed_migrations = ReturnedFalse(threads')]_vars

\* C28: success is reachable. A thread whose first attempt created the issue and
\* uploaded every attachment makes no second attempt, the issue of the first
\* attempt is not deleted, and when the thread returns it returns True with the
\* tracker row of the ticket 'success' while no other thread rewrites the file.
C28_CleanFirstAttemptSucceeds ==
    \A w \in LiveWorkers :
        0 \in threads[w].uploaded =>
            /\ threads[w].attempt = 0
            /\ threads[w].pc # "except"
            /\ IssueKey(threads[w].ticket_id, 0) \in jira_issues
            /\ threads[w].pc = "returned" =>
                  /\ threads[w].result = "True"
                  /\ tracker_lock = 0 =>
                        get_ticket_status(tracker_file, threads[w].ticket_id).jira_status
                            = "success"

\* C29: a ticket the tracker holds as 'success' or 'dry_run_completed' when
\* migrate_single_ticket is called for it is not migrated again, whatever the other
\* threads do to the tracker file meanwhile: no issue is created for it, and the
\* call returns True.
C29_ProcessedTicketsAreSkipped ==
    \A w \in LiveWorkers :
        threads[w].row_at_start.jira_status \in ProcessedStatuses =>
            /\ CreatedBy(w) = {}
            /\ threads[w].pc \notin {"create", "mark", "upload", "tracker", "except"}
            /\ threads[w].pc = "returned" => threads[w].result = "True"

\* the places of a thread between _mark_issue_for_cleanup and the end of the attempt
MarkedPlaces == {"upload", "tracker", "update", "open", "write"}

\* C30: cleanup marks are balanced. An entry of pending_issues belongs to a thread
\* that is between the creation of an issue and the end of that attempt, and
\* names that issue; a thread that has returned has no entry for its ticket; and
\* once main has run _cleanup_pending_issues the dict is empty and the issue of
\* every ticket the tracker holds as 'success' still exists.
C30_CleanupMarksBalanced ==
    /\ \A m \in pending_issues :
          \E w \in LiveWorkers :
              /\ threads[w].ticket_id = m[1]
              /\ threads[w].pc \in MarkedPlaces
              /\ threads[w].pc \in {"update", "open", "write"} =>
                     threads[w].update.jira_status = "success"
              /\ threads[w].created_issue = m[2]
              /\ m[2] = IssueKey(m[1], threads[w].attempt)
    /\ \A w \in LiveWorkers :
          threads[w].pc = "returned" =>
              \A m \in pending_issues : m[1] # threads[w].ticket_id
    /\ threads[MainThread].pc = "cleaned" =>
          /\ pending_issues = {}
          /\ \A k \in 1..Len(tracker_file) :
                tracker_file[k].jira_status = "success" =>
                    tracker_file[k].jira_id \in jira_issues

\* a _create_jira_issue_atomic call that created issues, and so marked them, has
\* returned, and main has cleaned up after it
C30_Witness ==
    /\ threads[MainThread].pc = "cleaned"
    /\ \E w \in LiveWorkers :
          /\ threads[w].pc = "returned"
          /\ threads[w].update # NoUpdate
          /\ Cardinality(CreatedBy(w)) = max_retries
    /\ \E k \in 1..Len(tracker_file) : tracker_file[k].jira_status = "success"

====
